---- MODULE Spec2Model ----
(***************************************************************************)
(* Lock-free single-writer / multi-reader primitives of the stupid         *)
(* library: the Book-based stupid::Object (Record / Immutable / Book),     *)
(* stupid::object with signal_synced_object, beach_ball with               *)
(* beach_ball_player, and trigger.                                         *)
(*                                                                         *)
(* Every atomic operation of the code is one step; a thread's position     *)
(* between two atomic operations is a pc value.  Each component has its    *)
(* own next-state relation and specification; the other components'        *)
(* variables stay at their initial values.                                 *)
(***************************************************************************)
EXTENDS Integers, Sequences, FiniteSets, TLC

(***************************************************************************)
(* Bounds                                                                  *)
(***************************************************************************)
\* Number of commit() calls the writer of a stupid::Object makes.
MaxCommits == 3

\* Number of commit() calls on the earlier stupid::Object (next_ / recent_).
MaxLegacyCommits == 3

\* Reader threads of a stupid::Object.
Readers == {"r1", "r2"}

\* Values of T.
Values == {1, 2}

\* Immutables on one record that the callers of an experimental::Object keep.
MaxKept == 2

\* Number of read().get() calls on an experimental::Object.
MaxGets == 2

\* The Immutable<T> objects of the thread that copies, moves and assigns them.
Handles == {"a", "b"}

\* What a read through a deleted record yields (freed memory).
Freed == 0

\* nullptr
Null == 0

RecIds == 1..MaxCommits

\* Number of write.set() / write.update() calls on a signal_synced_object.
MaxSets == 2

\* The refs a reader of a stupid::object holds at once.
MaxHeld == 2

\* Width in bits of the model's sync_signal counter (uint32_t in the code):
\* notify() wraps at 2^SignalBits.
SignalBits == 2

SignalModulus == 2 ^ SignalBits

\* Control blocks: the constructor's, then one per set().
CbIds == 1..(MaxSets + 1)

\* "no value" in the history variables.
NoVal == -1

\* Number of throw_ball() calls made on a beach_ball.
MaxThrows == 5

\* The threads calling commit() in a _DEBUG build.
Writers == {"w1", "w2"}

\* No thread (the mutex is free).
NoWriter == "none"

\* The two cells of a signal_synced_object_pair.
Cells == {0, 1}

\* The two beach_ball_player ids.
Players == {0, 1}

\* beach_ball::NO_PLAYER
NO_PLAYER == -1

\* Number of operator() / operator bool calls made on a trigger.
MaxTriggerOps == 6

VARIABLES
    \* ---- stupid::Object<T> (Book-based) ----
    recState,             \* Record allocation: "free" (not yet new'ed), "live", "deleted"
    recData,              \* *Record::data_
    ref_count,            \* Record::ref_count_
    dispose_flags,        \* Book::dispose_flags_ : a function whose DOMAIN is the key set
    last_written_record,  \* Object::last_written_record_
    last_written_ref,     \* Object::last_written_ref_.record_
    wpc,                  \* writer thread: position inside commit() / ~Object()
    wrec,                 \* commit(): local "record" (and out.record_)
    wold,                 \* Immutable::operator=: the record being unref'ed
    wtodo,                \* Book::collect(): entries not yet visited by the loop
    wcur,                 \* Book::collect(): the entry being deleted
    wdtor,                \* TRUE when collect() runs from ~Book()
    wval,                 \* commit(): the value of *data
    dtorAssert,           \* outcome of the assert in ~Book(): "none", "ok", "failed"
    dtorHeld,             \* history: the readers holding an Immutable on a record
                          \* when ~Object() began
    rpc,                  \* reader thread: position inside get() / ~Immutable()
    rrec,                 \* reader: Immutable::record_ being built / held
    raced,                \* reader: its dispose() overlapped a mutation of the map
    \* history of the Object
    nStarted,             \* commit() calls entered
    lastValue,            \* value given to the last commit() that returned
    loadEpoch,            \* reader: nStarted when get() loaded the pointer
    loadIdle,             \* reader: no commit() was in progress at that load
    acqLive,              \* reader: the record was live when its ref() completed
    acqVal,               \* reader: the value the Immutable read when acquired
    due,                  \* records superseded and unreferenced when collect() began
    \* ---- stupid::signal_synced_object<T> over stupid::object<T> ----
    cbState,              \* control_block allocation: "free", "live", "deleted"
    cbValue,              \* control_block::value
    cb_ref_count,         \* control_block::ref_count
    control_block,        \* object::critical_.control_block
    instance,             \* object::write_t::instance_.cb_
    garbage,              \* object::write_t::garbage_ (the cb_ of each ref)
    value_pending,        \* signal_synced_object::critical_.value_pending
    signal_value,         \* sync_signal::value_
    slot_value,           \* read_t::slot_value_
    current,              \* read_t::current_.cb_
    spc,                  \* writer thread: position inside write.set()
    snew,                 \* set(): local cb
    sold,                 \* set(): old_instance.cb_
    gcpos,                \* garbage_collect(): position of remove_if in garbage_
    gpc,                  \* reader thread: position inside read.get_value()
    gcb,                  \* acquire(): local cb
    \* history of the signal_synced_object
    nSets,                \* set() calls entered
    lastSet,              \* value given to the last set() that returned
    expectVal,            \* value of the set() that had returned at the last
                          \* notify(), NoVal once a further set() is entered
    callsInTick,          \* get_value() calls returned since the last notify(): 0, 1, 2 (= more)
    firstRet,             \* value returned by the first of them
    tickBlocks,           \* control blocks they returned references into
    \* ---- stupid::beach_ball and its two beach_ball_player ----
    first_catcher,        \* beach_ball::beach_ball(first_catcher)
    thrown_to,            \* beach_ball::thrown_to_
    have_ball,            \* beach_ball_player<p>::have_ball_
    bpc,                  \* player thread: position inside catch_ball() / throw_ball()
    lastResult,           \* player: what its last ensure() / catch_ball() returned
    \* history of the beach_ball
    nThrows,              \* throw_ball() calls entered
    ballLog,              \* successful catches <<"catch", p>> and throws <<"throw", p>>
    owed,                 \* the player the last completed throw was made to,
                          \* NO_PLAYER once that player has caught
    \* ---- stupid::trigger ----
    flag,                 \* trigger::flag_ (TRUE: set, FALSE: clear)
    trigLog,              \* history: "fire", and "true" / "false" for each consume
    \* ---- stupid::signal_synced_object_pair (its object, value_pending and
    \*      signal are the variables of signal_synced_object above) ----
    pcurrent,             \* read_t::current_[cell].cb_
    have_value,           \* read_t::have_value_[cell]
    pslot,                \* read_t::slot_value_
    ppc,                  \* reader thread: position inside update(cell)
    pcell,                \* update(): cell
    pcb,                  \* acquire(): local cb
    pget,                 \* update() was called by get_value()
    \* history of the signal_synced_object_pair
    polledAt,             \* nSets at the last update(cell) call of each cell
                          \* (NoVal: none, or forgotten as older than nSets)
    pret,                 \* the last get_value(cell) that returned
    phist,                \* the polls since the last set() returned
    \* ---- stupid::Object in a _DEBUG build, commit() called by two threads ----
    commit_mutex,         \* debug_.commit_mutex: the thread owning it, or NoWriter
    dpc,                  \* each thread: "out" of commit(), or "in" it with the lock
    dstart,               \* nStarted when the lock was taken
    dattempt,             \* history: the last commit() entered
    \* ---- Object::copy() on the writer thread ----
    crec,                 \* copy(): ref.record_
    copied,               \* the T copy() returned, until the caller is done with it
    csnap,                \* history: the cell and the readers when copy() was called
    \* ---- stupid::object<T> read directly: read.acquire() and the refs held ----
    opc,                  \* reader thread: position inside read.acquire()
    ocb,                  \* acquire(): local cb
    oheld,                \* the refs the reader holds: how many into each block
    oduring,              \* history: the blocks the reader held, or was taking a
                          \* reference on, since the most recent set() was entered
    \* ---- beach_ball: throw_ball() called by a role without the ball ----
    bmisuse,              \* "none", or how the call ended: "asserted", "tolerated"
    \* ---- the earlier stupid::Object: next_ / recent_, Reader and Writer ----
    next_,                \* Object::next_, the committed version not yet picked up
    recent_,              \* Object::recent_, the version committed last
    prev_next,            \* commit(): what its exchange took out of next_
    lwpc,                 \* writer thread: position inside commit() / ~Object()
    current_,             \* Reader::current_
    retrieved_,           \* Reader::retrieved_
    lrpc,                 \* reader thread: position inside pending() / get_next()
    unmanaged,            \* versions from get_next_unmanaged() not yet disposed
    gdState,              \* GarbageDisposal: each version "free", "live" or "deleted"
    gdFlag,               \* GarbageDisposal: each entry's dispose flag
    handed,               \* history: how often a get_next returned each version
    taken,                \* history: how often commit() / ~Object() disposed of it
    \* ---- Immutable<T> objects of a thread using a stupid::Object ----
    hlive,                \* each Immutable of the thread: constructed and not destroyed
    hrec,                 \* Immutable::record_
    hpc,                  \* the thread's position inside an Immutable operation
    hcur,                 \* the Immutable the operation in flight is called on
    harg,                 \* its argument: a record, or the Immutable rhs
    \* ---- stupid::experimental::Object (its Book, records, last_written_record_
    \*      and last_written_ref_ are the variables of stupid::Object above) ----
    ekept,                \* Immutables the callers of commit() / read().get() keep:
                          \* how many on each record
    eretrieved,           \* Read::retrieved_.record_
    etemp,                \* Read::get(): the record of the Immutable object_->get() returned
    erpc,                 \* reader thread: position inside Read::get()
    egets                 \* history: Read::get() calls entered

objVars == <<recState, recData, ref_count, dispose_flags, last_written_record,
             last_written_ref, wpc, wrec, wold, wtodo, wcur, wdtor, wval,
             dtorAssert, dtorHeld, rpc, rrec, raced, nStarted, lastValue, loadEpoch,
             loadIdle, acqLive, acqVal, due>>

syncVars == <<cbState, cbValue, cb_ref_count, control_block, instance,
              garbage, value_pending, signal_value, slot_value, current, spc,
              snew, sold, gcpos, gpc, gcb, nSets, lastSet, expectVal,
              callsInTick, firstRet, tickBlocks>>

ballVars == <<first_catcher, thrown_to, have_ball, bpc, lastResult, nThrows,
              ballLog, owed>>

trigVars == <<flag, trigLog>>

pairVars == <<pcurrent, have_value, pslot, ppc, pcell, pcb, pget, polledAt,
              pret>>

pairHistVars == <<phist>>

debugVars == <<commit_mutex, dpc, dstart, dattempt>>

copyVars == <<crec, copied, csnap>>

refVars == <<opc, ocb, oheld, oduring>>

misuseVars == <<bmisuse>>

legacyVars == <<next_, recent_, prev_next, lwpc, current_, retrieved_, lrpc,
                unmanaged, gdState, gdFlag, handed, taken>>

immVars == <<hlive, hrec, hpc, hcur, harg>>

expVars == <<ekept, eretrieved, etemp, erpc, egets>>

vars == <<objVars, syncVars, ballVars, trigVars, pairVars, pairHistVars,
          debugVars, copyVars, refVars, misuseVars, legacyVars, immVars,
          expVars>>

(***************************************************************************)
(* Immutable / Record                                                      *)
(***************************************************************************)
\* Immutable::get_data() / operator*: the value read through record rec.
GetData(rec) == IF recState[rec] = "live" THEN recData[rec] ELSE Freed

\* Record::ref(): ref_count_++
Ref(rc, rec) == [rc EXCEPT ![rec] = @ + 1]

\* Record::unref(): ref_count_.fetch_sub(1)
FetchSub(rc, rec) == [rc EXCEPT ![rec] = @ - 1]

\* Record::is_dangling()
IsDangling(rec) == ref_count[rec] = 0

(***************************************************************************)
(* Book                                                                    *)
(***************************************************************************)
\* Book::make_record: dispose_flags_[out] = false
Insert(flags, rec) ==
    [k \in (DOMAIN flags) \cup {rec} |-> IF k = rec THEN FALSE ELSE flags[k]]

\* Mutant of Dispose: every registered record is flagged.
DisposeAll(flags, rec) == [k \in DOMAIN flags |-> TRUE]

\* Book::dispose: find the record, and set its flag if it is registered
Dispose(flags, rec) ==
    IF rec \in DOMAIN flags THEN [flags EXCEPT ![rec] = TRUE] ELSE flags

\* Book::collect: dispose_flags_.erase(pos)
Erase(flags, rec) == [k \in (DOMAIN flags) \ {rec} |-> flags[k]]

\* Mutant of Collectible: the reference count is not looked at.
CollectibleIfDisposed(rec) == dispose_flags[rec]

\* Book::collect: the test that decides deletion of one entry
Collectible(rec) == dispose_flags[rec] /\ IsDangling(rec)

\* A reader whose dispose() is in flight while the writer mutates the
\* unordered_map: the two accesses are unsynchronised.
MapMutated == [r \in Readers |-> IF rpc[r] = "disposing" THEN TRUE ELSE raced[r]]

(***************************************************************************)
(* Initial state: a default-constructed Object, no reader active           *)
(***************************************************************************)
InitObject ==
    /\ recState = [k \in RecIds |-> "free"]
    /\ recData = [k \in RecIds |-> Freed]
    /\ ref_count = [k \in RecIds |-> 0]
    /\ dispose_flags = <<>>
    /\ last_written_record = Null
    /\ last_written_ref = Null
    /\ wpc = "idle"
    /\ wrec = Null
    /\ wold = Null
    /\ wtodo = {}
    /\ wcur = Null
    /\ wdtor = FALSE
    /\ wval = Freed
    /\ dtorAssert = "none"
    /\ dtorHeld = {}
    /\ rpc = [r \in Readers |-> "idle"]
    /\ rrec = [r \in Readers |-> Null]
    /\ raced = [r \in Readers |-> FALSE]
    /\ nStarted = 0
    /\ lastValue = Freed
    /\ loadEpoch = [r \in Readers |-> 0]
    /\ loadIdle = [r \in Readers |-> FALSE]
    /\ acqLive = [r \in Readers |-> FALSE]
    /\ acqVal = [r \in Readers |-> Freed]
    /\ due = {}

readerVars == <<rpc, rrec, raced, loadEpoch, loadIdle, acqLive, acqVal>>
collectVars == <<wtodo, wcur, wdtor, dtorAssert, dtorHeld, due>>

\* The records no Immutable references: the count is 0 and no reader is
\* inside get() or ~Immutable() on them.
Unreferenced(rc) ==
    {rec \in DOMAIN dispose_flags :
        rc[rec] = 0 /\ \A r \in Readers : rrec[r] # rec}

(***************************************************************************)
(* Object::commit(T* data), writer thread                                  *)
(***************************************************************************)
\* book_.make_record(data): new Record, dispose_flags_[out] = false
MakeRecord(v) ==
    /\ wpc = "idle"
    /\ nStarted < MaxCommits
    /\ LET rec == nStarted + 1 IN
        /\ recState' = [recState EXCEPT ![rec] = "live"]
        /\ recData' = [recData EXCEPT ![rec] = v]
        /\ dispose_flags' = Insert(dispose_flags, rec)
        /\ wrec' = rec
    /\ wval' = v
    /\ raced' = MapMutated
    /\ nStarted' = nStarted + 1
    /\ wpc' = "made"
    /\ UNCHANGED <<ref_count, last_written_record, last_written_ref, wold,
                   collectVars, rpc, rrec, lastValue, loadEpoch, loadIdle,
                   acqLive, acqVal>>
    /\ UNCHANGED <<syncVars, ballVars, trigVars, pairVars, pairHistVars, debugVars, copyVars, refVars, misuseVars, legacyVars, immVars, expVars>>

\* Mutant of MakeOut: the Immutable returned takes no reference.
MakeOutNoRef ==
    /\ wpc = "made"
    /\ wpc' = "outed"
    /\ UNCHANGED <<recState, recData, ref_count, dispose_flags,
                   last_written_record, last_written_ref, wrec, wold,
                   collectVars, wval, readerVars, nStarted, lastValue>>
    /\ UNCHANGED <<syncVars, ballVars, trigVars, pairVars, pairHistVars, debugVars, copyVars, refVars, misuseVars, legacyVars, immVars, expVars>>

\* const auto out{Immutable<T>{record}}
MakeOut ==
    /\ wpc = "made"
    /\ ref_count' = Ref(ref_count, wrec)
    /\ wpc' = "outed"
    /\ UNCHANGED <<recState, recData, dispose_flags, last_written_record,
                   last_written_ref, wrec, wold, collectVars, wval,
                   readerVars, nStarted, lastValue>>
    /\ UNCHANGED <<syncVars, ballVars, trigVars, pairVars, pairHistVars, debugVars, copyVars, refVars, misuseVars, legacyVars, immVars, expVars>>

\* Mutant of StoreRecord: the publication of the new record is left out.
StoreRecordSkipped ==
    /\ wpc = "outed"
    /\ wpc' = "stored"
    /\ UNCHANGED <<recState, recData, ref_count, dispose_flags,
                   last_written_record, last_written_ref, wrec, wold, wval,
                   collectVars, readerVars, nStarted, lastValue>>
    /\ UNCHANGED <<syncVars, ballVars, trigVars, pairVars, pairHistVars, debugVars, copyVars, refVars, misuseVars, legacyVars, immVars, expVars>>

\* last_written_record_ = record
StoreRecord ==
    /\ wpc = "outed"
    /\ last_written_record' = wrec
    /\ wpc' = "stored"
    /\ UNCHANGED <<recState, recData, ref_count, dispose_flags,
                   last_written_ref, wrec, wold, collectVars, wval,
                   readerVars, nStarted, lastValue>>
    /\ UNCHANGED <<syncVars, ballVars, trigVars, pairVars, pairHistVars, debugVars, copyVars, refVars, misuseVars, legacyVars, immVars, expVars>>

\* last_written_ref_ = out: if (record_) record_->unref()  -- the fetch_sub
AssignUnref ==
    /\ wpc = "stored"
    /\ IF last_written_ref = Null
         THEN /\ wpc' = "retain"
              /\ UNCHANGED <<ref_count, wold>>
         ELSE /\ ref_count' = FetchSub(ref_count, last_written_ref)
              /\ wold' = last_written_ref
              /\ wpc' = IF ref_count[last_written_ref] = 1 THEN "wdispose" ELSE "retain"
    /\ UNCHANGED <<recState, recData, dispose_flags, last_written_record,
                   last_written_ref, wrec, collectVars, wval, readerVars,
                   nStarted, lastValue>>
    /\ UNCHANGED <<syncVars, ballVars, trigVars, pairVars, pairHistVars, debugVars, copyVars, refVars, misuseVars, legacyVars, immVars, expVars>>

\* Mutant of AssignDispose: the record just published is the one flagged.
AssignDisposeNew ==
    /\ wpc = "wdispose"
    /\ dispose_flags' = Dispose(dispose_flags, wrec)
    /\ wpc' = "retain"
    /\ UNCHANGED <<recState, recData, ref_count, last_written_record,
                   last_written_ref, wrec, wold, collectVars, wval,
                   readerVars, nStarted, lastValue>>
    /\ UNCHANGED <<syncVars, ballVars, trigVars, pairVars, pairHistVars, debugVars, copyVars, refVars, misuseVars, legacyVars, immVars, expVars>>

\* Record::unref on the writer thread: book_->dispose(this)
AssignDispose ==
    /\ wpc = "wdispose"
    /\ dispose_flags' = Dispose(dispose_flags, wold)
    /\ wpc' = "retain"
    /\ UNCHANGED <<recState, recData, ref_count, last_written_record,
                   last_written_ref, wrec, wold, collectVars, wval,
                   readerVars, nStarted, lastValue>>
    /\ UNCHANGED <<syncVars, ballVars, trigVars, pairVars, pairHistVars, debugVars, copyVars, refVars, misuseVars, legacyVars, immVars, expVars>>

\* last_written_ref_ = out: record_ = rhs.record_; record_->ref();
\* then book_.collect() starts its loop at dispose_flags_.begin()
AssignRef ==
    /\ wpc = "retain"
    /\ last_written_ref' = wrec
    /\ ref_count' = Ref(ref_count, wrec)
    /\ wtodo' = DOMAIN dispose_flags
    /\ due' = Unreferenced(ref_count) \ {wrec}
    /\ wpc' = "collect"
    /\ UNCHANGED <<recState, recData, dispose_flags, last_written_record,
                   wrec, wold, wcur, wdtor, wval, dtorAssert, dtorHeld, readerVars,
                   nStarted, lastValue>>
    /\ UNCHANGED <<syncVars, ballVars, trigVars, pairVars, pairHistVars, debugVars, copyVars, refVars, misuseVars, legacyVars, immVars, expVars>>

(***************************************************************************)
(* Book::collect(), one loop iteration per entry                           *)
(***************************************************************************)
\* disposed = pos->second.load(); if (disposed && record->is_dangling())
CollectCheck(rec) ==
    /\ wpc = "collect"
    /\ rec \in wtodo
    /\ IF Collectible(rec)
         THEN /\ wcur' = rec
              /\ wpc' = "deleting"
              /\ UNCHANGED wtodo
         ELSE /\ wtodo' = wtodo \ {rec}
              /\ UNCHANGED <<wcur, wpc>>
    /\ UNCHANGED <<recState, recData, ref_count, dispose_flags,
                   last_written_record, last_written_ref, wrec, wold, wdtor,
                   wval, dtorAssert, dtorHeld, readerVars, nStarted, lastValue, due>>
    /\ UNCHANGED <<syncVars, ballVars, trigVars, pairVars, pairHistVars, debugVars, copyVars, refVars, misuseVars, legacyVars, immVars, expVars>>

\* delete record->get_data(); delete record; pos = dispose_flags_.erase(pos)
CollectDelete ==
    /\ wpc = "deleting"
    /\ recState' = [recState EXCEPT ![wcur] = "deleted"]
    /\ recData' = [recData EXCEPT ![wcur] = Freed]
    /\ dispose_flags' = Erase(dispose_flags, wcur)
    /\ raced' = MapMutated
    /\ wtodo' = wtodo \ {wcur}
    /\ wcur' = Null
    /\ wpc' = "collect"
    /\ UNCHANGED <<ref_count, last_written_record, last_written_ref, wrec,
                   wold, wdtor, wval, dtorAssert, dtorHeld, rpc, rrec, nStarted,
                   lastValue, loadEpoch, loadIdle, acqLive, acqVal, due>>
    /\ UNCHANGED <<syncVars, ballVars, trigVars, pairVars, pairHistVars, debugVars, copyVars, refVars, misuseVars, legacyVars, immVars, expVars>>

\* The loop of collect() called from commit() is over.
CollectDone ==
    /\ wpc = "collect"
    /\ wtodo = {}
    /\ ~wdtor
    /\ wpc' = "ret"
    /\ UNCHANGED <<recState, recData, ref_count, dispose_flags,
                   last_written_record, last_written_ref, wrec, wold,
                   collectVars, wval, readerVars, nStarted, lastValue>>
    /\ UNCHANGED <<syncVars, ballVars, trigVars, pairVars, pairHistVars, debugVars, copyVars, refVars, misuseVars, legacyVars, immVars, expVars>>

\* return out; the caller drops the returned Immutable (README: the result
\* of commit() is discarded): ~Immutable -> Record::unref
CommitReturn ==
    /\ wpc = "ret"
    /\ ref_count' = FetchSub(ref_count, wrec)
    /\ dispose_flags' = IF ref_count[wrec] = 1 THEN Dispose(dispose_flags, wrec)
                        ELSE dispose_flags
    /\ lastValue' = wval
    /\ wrec' = Null
    /\ wold' = Null
    /\ wval' = Freed
    /\ wpc' = "idle"
    /\ UNCHANGED <<recState, recData, last_written_record, last_written_ref,
                   collectVars, readerVars, nStarted>>
    /\ UNCHANGED <<syncVars, ballVars, trigVars, pairVars, pairHistVars, debugVars, copyVars, refVars, misuseVars, legacyVars, immVars, expVars>>

(***************************************************************************)
(* Object::~Object(): ~Immutable of last_written_ref_, then ~Book()        *)
(***************************************************************************)
\* The Object is destroyed by its owner while no get() and no dispose() is
\* in flight; readers may still hold Immutables (a usage error the
\* destructor asserts against).
DestroyUnref ==
    /\ wpc = "idle"
    /\ \A r \in Readers : rpc[r] \in {"idle", "holding"}
    /\ IF last_written_ref = Null
         THEN UNCHANGED <<ref_count, dispose_flags>>
         ELSE /\ ref_count' = FetchSub(ref_count, last_written_ref)
              /\ dispose_flags' = IF ref_count[last_written_ref] = 1
                                    THEN Dispose(dispose_flags, last_written_ref)
                                    ELSE dispose_flags
    /\ last_written_ref' = Null
    /\ wtodo' = DOMAIN dispose_flags
    /\ due' = Unreferenced(ref_count')
    /\ wdtor' = TRUE
    /\ dtorHeld' = {r \in Readers : rpc[r] = "holding" /\ rrec[r] # Null}
    /\ wpc' = "collect"
    /\ UNCHANGED <<recState, recData, last_written_record, wrec, wold, wcur,
                   wval, dtorAssert, readerVars, nStarted, lastValue>>
    /\ UNCHANGED <<syncVars, ballVars, trigVars, pairVars, pairHistVars, debugVars, copyVars, refVars, misuseVars, legacyVars, immVars, expVars>>

\* ~Book(): after collect(), assert(dispose_flags_.empty())
DestroyAssert ==
    /\ wpc = "collect"
    /\ wtodo = {}
    /\ wdtor
    /\ dtorAssert' = IF DOMAIN dispose_flags = {} THEN "ok" ELSE "failed"
    /\ wpc' = "destroyed"
    /\ UNCHANGED dtorHeld
    /\ UNCHANGED <<recState, recData, ref_count, dispose_flags,
                   last_written_record, last_written_ref, wrec, wold, wtodo,
                   wcur, wdtor, wval, readerVars, nStarted, lastValue, due>>
    /\ UNCHANGED <<syncVars, ballVars, trigVars, pairVars, pairHistVars, debugVars, copyVars, refVars, misuseVars, legacyVars, immVars, expVars>>

ObjectAlive == wpc # "destroyed" /\ ~wdtor

(***************************************************************************)
(* Object::get() on a reader thread: Immutable<T>{last_written_record_}    *)
(***************************************************************************)
\* The atomic load of last_written_record_ (the constructor's argument)
GetLoad(r) ==
    /\ rpc[r] = "idle"
    /\ ObjectAlive
    /\ rrec' = [rrec EXCEPT ![r] = last_written_record]
    /\ rpc' = [rpc EXCEPT ![r] = "loaded"]
    /\ loadEpoch' = [loadEpoch EXCEPT ![r] = nStarted]
    /\ loadIdle' = [loadIdle EXCEPT ![r] = (wpc = "idle")]
    /\ UNCHANGED <<recState, recData, ref_count, dispose_flags,
                   last_written_record, last_written_ref, wpc, wrec, wold,
                   collectVars, wval, raced, nStarted, lastValue, acqLive,
                   acqVal>>
    /\ UNCHANGED <<syncVars, ballVars, trigVars, pairVars, pairHistVars, debugVars, copyVars, refVars, misuseVars, legacyVars, immVars, expVars>>

\* Immutable(Record<T>* record): if (record_) record_->ref()
GetRef(r) ==
    /\ rpc[r] = "loaded"
    /\ IF rrec[r] = Null
         THEN UNCHANGED <<ref_count, acqLive, acqVal>>
         ELSE /\ ref_count' = Ref(ref_count, rrec[r])
              /\ acqLive' = [acqLive EXCEPT ![r] = (recState[rrec[r]] = "live")]
              /\ acqVal' = [acqVal EXCEPT ![r] = GetData(rrec[r])]
    /\ rpc' = [rpc EXCEPT ![r] = "holding"]
    /\ UNCHANGED <<recState, recData, dispose_flags, last_written_record,
                   last_written_ref, wpc, wrec, wold, collectVars, wval,
                   rrec, raced, nStarted, lastValue, loadEpoch, loadIdle>>
    /\ UNCHANGED <<syncVars, ballVars, trigVars, pairVars, pairHistVars, debugVars, copyVars, refVars, misuseVars, legacyVars, immVars, expVars>>

\* The history of a get() ends with its Immutable.
ForgetGet(r) ==
    /\ loadEpoch' = [loadEpoch EXCEPT ![r] = 0]
    /\ loadIdle' = [loadIdle EXCEPT ![r] = FALSE]
    /\ acqLive' = [acqLive EXCEPT ![r] = FALSE]
    /\ acqVal' = [acqVal EXCEPT ![r] = Freed]

\* ~Immutable(): if (record_) record_->unref()  -- the fetch_sub
Release(r) ==
    /\ rpc[r] = "holding"
    /\ IF rrec[r] = Null
         THEN /\ rpc' = [rpc EXCEPT ![r] = "idle"]
              /\ UNCHANGED <<ref_count, rrec>>
         ELSE /\ ref_count' = FetchSub(ref_count, rrec[r])
              /\ IF ref_count[rrec[r]] = 1 /\ wpc # "destroyed"
                   THEN /\ rpc' = [rpc EXCEPT ![r] = "disposing"]
                        /\ UNCHANGED rrec
                   ELSE /\ rpc' = [rpc EXCEPT ![r] = "idle"]
                        /\ rrec' = [rrec EXCEPT ![r] = Null]
    /\ raced' = [raced EXCEPT ![r] = FALSE]
    /\ ForgetGet(r)
    /\ UNCHANGED <<recState, recData, dispose_flags, last_written_record,
                   last_written_ref, wpc, wrec, wold, collectVars, wval,
                   nStarted, lastValue>>
    /\ UNCHANGED <<syncVars, ballVars, trigVars, pairVars, pairHistVars, debugVars, copyVars, refVars, misuseVars, legacyVars, immVars, expVars>>

\* Record::unref on a reader thread: book_->dispose(this).  The find() is
\* not synchronised with the writer's insert / erase on the same map: when
\* they overlapped, the lookup may also miss the entry.
ReaderDispose(r) ==
    /\ rpc[r] = "disposing"
    /\ \/ dispose_flags' = Dispose(dispose_flags, rrec[r])
       \/ /\ raced[r]
          /\ UNCHANGED dispose_flags
    /\ rpc' = [rpc EXCEPT ![r] = "idle"]
    /\ rrec' = [rrec EXCEPT ![r] = Null]
    /\ raced' = [raced EXCEPT ![r] = FALSE]
    /\ UNCHANGED <<recState, recData, ref_count, last_written_record,
                   last_written_ref, wpc, wrec, wold, collectVars, wval,
                   nStarted, lastValue, loadEpoch, loadIdle, acqLive, acqVal>>
    /\ UNCHANGED <<syncVars, ballVars, trigVars, pairVars, pairHistVars, debugVars, copyVars, refVars, misuseVars, legacyVars, immVars, expVars>>

NextObject ==
    \/ \E v \in Values : MakeRecord(v)
    \/ MakeOut
    \/ StoreRecord
    \/ AssignUnref
    \/ AssignDispose
    \/ AssignRef
    \/ \E rec \in RecIds : CollectCheck(rec)
    \/ CollectDelete
    \/ CollectDone
    \/ CommitReturn
    \/ DestroyUnref
    \/ DestroyAssert
    \/ \E r \in Readers : GetLoad(r)
    \/ \E r \in Readers : GetRef(r)
    \/ \E r \in Readers : Release(r)
    \/ \E r \in Readers : ReaderDispose(r)

(***************************************************************************)
(* Claims about stupid::Object (Book-based)                                *)
(***************************************************************************)
\* A reader holds a complete Immutable on a record.
Holds(r) == rpc[r] = "holding" /\ rrec[r] # Null

\* C1: get(), taken as its two steps (load last_written_record_, then
\* increment the record's ref_count), never increments the ref_count of, and
\* never returns an Immutable to, a record that collect() already deleted.
GetNeverRefsDeletedRecord ==
    \A r \in Readers : Holds(r) => acqLive[r]

\* C2: an Immutable whose ref_count increment completed on a live record
\* keeps that record alive and reads the value it read at acquisition,
\* whatever commits and collect() sweeps follow.
AcquiredImmutableStaysValid ==
    \A r \in Readers :
        (Holds(r) /\ acqLive[r]) =>
            /\ recState[rrec[r]] = "live"
            /\ GetData(rrec[r]) = acqVal[r]

\* C3: freshness.  A get() that loaded the pointer after commit(v) returned,
\* with no later commit() entered since, yields an Immutable whose value is v.
Freshness ==
    \A r \in Readers :
        (rpc[r] = "holding" /\ loadIdle[r] /\ loadEpoch[r] = nStarted
            /\ nStarted > 0) =>
            /\ rrec[r] # Null
            /\ GetData(rrec[r]) = lastValue

\* C3 witness: after the second commit returned, a reader completed a get()
\* while an older Immutable of the first commit is still held by the other.
FreshnessWitness ==
    \E r, q \in Readers :
        /\ rpc[r] = "holding" /\ loadIdle[r] /\ loadEpoch[r] = nStarted
        /\ nStarted = 2 /\ wpc = "idle"
        /\ rrec[r] = 2 /\ GetData(rrec[r]) = lastValue
        /\ rpc[q] = "holding" /\ rrec[q] = 1 /\ GetData(1) # lastValue

\* C12: teardown check.  When the Object is destroyed after every externally
\* held Immutable has been released, the final collect() deletes every
\* registered record, dispose_flags_ is empty and the destructor's assertion
\* holds; when an external Immutable is alive throughout the destruction,
\* the assertion fails.
TeardownCheck ==
    wpc = "destroyed" =>
        /\ dtorHeld = {} =>
              /\ dtorAssert = "ok"
              /\ DOMAIN dispose_flags = {}
              /\ \A rec \in RecIds : recState[rec] # "live"
        /\ (\E r \in dtorHeld : Holds(r)) => dtorAssert = "failed"

\* C19: whenever last_written_record_ is non-null, the record it points to
\* has ref_count >= 1, in every state of the Object's life, the intermediate
\* steps of commit() included: the new record is referenced (by the
\* Immutable commit() returns) before it is published, and last_written_ref_
\* retains it afterwards.
PublishedRecordReferenced ==
    (ObjectAlive /\ last_written_record # Null) =>
        /\ ref_count[last_written_record] >= 1
        /\ recState[last_written_record] = "live"
        /\ \/ last_written_ref = last_written_record
           \/ /\ wpc \in {"stored", "wdispose", "retain"}
              /\ wrec = last_written_record

\* C19 witness: the second commit() has published its record, held by the
\* Immutable it will return only; last_written_ref_ is still the first.
PublishedRecordReferencedWitness ==
    /\ wpc = "stored"
    /\ nStarted = 2
    /\ last_written_record = wrec
    /\ ref_count[wrec] = 1
    /\ last_written_ref # wrec
    /\ last_written_ref # Null

\* A step of collect(): an entry is deleted only after its check passed, the
\* check passes only on a set dispose flag and a count of 0, and while the
\* Object is alive the entry is never the published record.
CollectStep ==
    /\ (wpc # "deleting" /\ wpc' = "deleting") =>
          /\ wpc = "collect"
          /\ wcur' \in wtodo
          /\ dispose_flags[wcur']
          /\ ref_count[wcur'] = 0
    /\ \A rec \in RecIds :
          (recState[rec] = "live" /\ recState'[rec] # "live") =>
              /\ wpc = "deleting"
              /\ wcur = rec
              /\ ~wdtor => rec # last_written_record
    /\ \A rec \in RecIds :
          (wpc = "collect" /\ rec \in wtodo /\ rec \notin wtodo'
                /\ ~(dispose_flags[rec] /\ ref_count[rec] = 0)) =>
              /\ recState'[rec] = "live"
              /\ rec \in DOMAIN dispose_flags'

\* C20: Book::collect() deletes a record only if, at the time of its check,
\* the record's dispose flag is set and its ref_count is 0; a superseded
\* record still referenced by an Immutable is skipped, and the record
\* last_written_record_ points to is never deleted by a collect() while the
\* Object is alive.
CollectDeletesOnlyDisposedDangling ==
    /\ [][CollectStep]_vars
    /\ []((ObjectAlive /\ last_written_record # Null) =>
             recState[last_written_record] = "live")

\* C20 witness: the collect() of the third commit is over; it skipped the
\* second record, which a reader still holds, after the first was deleted.
CollectDeletesOnlyDisposedDanglingWitness ==
    /\ wpc = "ret"
    /\ nStarted = 3
    /\ \E old \in RecIds : recState[old] = "deleted"
    /\ \E r \in Readers :
          /\ Holds(r) /\ acqLive[r]
          /\ rrec[r] # last_written_record
          /\ recState[rrec[r]] = "live"
          /\ ref_count[rrec[r]] >= 1

\* The flag of record rec goes from false to true in this step.
FlagSet(rec) ==
    /\ rec \in DOMAIN dispose_flags
    /\ ~dispose_flags[rec]
    /\ rec \in DOMAIN dispose_flags'
    /\ dispose_flags'[rec]

\* C21 as stated: each record's registry flag is set to true exactly once,
\* at the moment of the commit() that supersedes the record, not earlier and
\* not later (the last record, which ~Object() flags, left aside).
FlagSetBySupersedingCommit ==
    [][\A rec \in RecIds :
          (FlagSet(rec) /\ ~wdtor') => (wpc = "wdispose" /\ wold = rec)]_vars

\* A step that sets a flag is the dispose() of an unref() that took the
\* count to 0: of last_written_ref_ in the superseding commit(), of a
\* reader's Immutable, or of last_written_ref_ in ~Object(); the record is
\* already superseded unless the Object is being destroyed.  A set flag
\* stays set as long as the entry exists.
FlagStep ==
    \A rec \in RecIds :
        /\ FlagSet(rec) =>
              /\ \/ wpc = "wdispose" /\ wold = rec
                 \/ \E r \in Readers : rpc[r] = "disposing" /\ rrec[r] = rec
                 \/ wpc = "idle" /\ wdtor' /\ last_written_ref = rec
              /\ rec # last_written_record \/ wdtor'
        /\ (rec \in DOMAIN dispose_flags /\ dispose_flags[rec]
                /\ rec \in DOMAIN dispose_flags') => dispose_flags'[rec]

\* C21 (amended): a record's flag goes from false to true at most once and
\* never back; it is set when the record's ref_count drops to 0, which is at
\* the superseding commit() if no Immutable references the record and at the
\* destruction of its last Immutable otherwise; never while it is the
\* published record of a live Object.
FlagSetWhenLastReferenceDropped ==
    /\ [][FlagStep]_vars
    /\ []((ObjectAlive /\ last_written_record # Null
              /\ last_written_record \in DOMAIN dispose_flags) =>
             ~dispose_flags[last_written_record])

\* C21 witness: the second commit() has returned; the first record, held by
\* a reader across it, was flagged afterwards by that reader's release.
FlagSetWhenLastReferenceDroppedWitness ==
    /\ wpc = "idle"
    /\ ObjectAlive
    /\ nStarted = 2
    /\ \E rec \in DOMAIN dispose_flags :
          /\ dispose_flags[rec]
          /\ rec # last_written_record
          /\ recState[rec] = "live"
    /\ \E r \in Readers : Holds(r) /\ rrec[r] = last_written_record

\* C4: eventual reclamation.  A record that was superseded and whose every
\* Immutable had been destroyed when a collect() began is deleted, and its
\* registry entry removed, by the time that collect() is over.
ReclaimedByNextCollect ==
    wpc \in {"ret", "destroyed"} =>
        \A rec \in due :
            recState[rec] = "deleted" /\ rec \notin DOMAIN dispose_flags

(***************************************************************************)
(* Object::copy() on the writer thread, between two commits:               *)
(* Immutable<T> ref{ get() }; if (!ref) return nullptr;                    *)
(* return new T{ the data of ref };                                        *)
(***************************************************************************)
NoSnap == [rc |-> <<>>, flags |-> <<>>, lwr |-> Null, rpc |-> <<>>,
           rrec |-> <<>>]

InitCopy ==
    /\ crec = Null
    /\ copied = Freed
    /\ csnap = NoSnap

\* What copy() leaves alone in the Object, the Book and the readers.
copyFrame == <<recState, recData, last_written_record, last_written_ref,
               wrec, wold, wval, nStarted, lastValue, collectVars,
               readerVars>>

\* get(): the load of last_written_record_
CopyLoad ==
    /\ wpc = "idle"
    /\ crec' = last_written_record
    /\ wpc' = "copyload"
    /\ csnap' = [rc |-> ref_count, flags |-> dispose_flags,
                 lwr |-> last_written_record, rpc |-> rpc, rrec |-> rrec]
    /\ UNCHANGED <<ref_count, dispose_flags, copied>>
    /\ UNCHANGED copyFrame
    /\ UNCHANGED <<syncVars, ballVars, trigVars, pairVars, pairHistVars, debugVars, refVars, misuseVars, legacyVars, immVars, expVars>>

\* Mutant of CopyRef: no test for an empty ref, copy() hands out a T either
\* way.
CopyRefNoNullTest ==
    /\ wpc = "copyload"
    /\ IF crec = Null
         THEN /\ wpc' = "copied"
              /\ UNCHANGED ref_count
         ELSE /\ ref_count' = Ref(ref_count, crec)
              /\ wpc' = "copyref"
    /\ UNCHANGED <<dispose_flags, crec, copied, csnap>>
    /\ UNCHANGED copyFrame
    /\ UNCHANGED <<syncVars, ballVars, trigVars, pairVars, pairHistVars, debugVars, refVars, misuseVars, legacyVars, immVars, expVars>>

\* Immutable(Record<T>*): if (record_) record_->ref(); then
\* if (!ref) return nullptr; an empty ref makes copy() return nullptr.
CopyRef ==
    /\ wpc = "copyload"
    /\ IF crec = Null
         THEN /\ wpc' = "copynull"
              /\ UNCHANGED ref_count
         ELSE /\ ref_count' = Ref(ref_count, crec)
              /\ wpc' = "copyref"
    /\ UNCHANGED <<dispose_flags, crec, copied, csnap>>
    /\ UNCHANGED copyFrame
    /\ UNCHANGED <<syncVars, ballVars, trigVars, pairVars, pairHistVars, debugVars, refVars, misuseVars, legacyVars, immVars, expVars>>

\* new T{ *ref.get_data() }
CopyConstruct ==
    /\ wpc = "copyref"
    /\ copied' = GetData(crec)
    /\ wpc' = "copynew"
    /\ UNCHANGED <<ref_count, dispose_flags, crec, csnap>>
    /\ UNCHANGED copyFrame
    /\ UNCHANGED <<syncVars, ballVars, trigVars, pairVars, pairHistVars, debugVars, refVars, misuseVars, legacyVars, immVars, expVars>>

\* Mutant of CopyReturn: the local Immutable is never destroyed.
CopyReturnKeepsRef ==
    /\ wpc = "copynew"
    /\ crec' = Null
    /\ wpc' = "copied"
    /\ UNCHANGED <<ref_count, dispose_flags, copied, csnap>>
    /\ UNCHANGED copyFrame
    /\ UNCHANGED <<syncVars, ballVars, trigVars, pairVars, pairHistVars, debugVars, refVars, misuseVars, legacyVars, immVars, expVars>>

\* return: ~Immutable of ref -> Record::unref (dispose when it was the last)
CopyReturn ==
    /\ wpc = "copynew"
    /\ ref_count' = FetchSub(ref_count, crec)
    /\ dispose_flags' = IF ref_count[crec] = 1
                          THEN Dispose(dispose_flags, crec)
                          ELSE dispose_flags
    /\ crec' = Null
    /\ wpc' = "copied"
    /\ UNCHANGED <<copied, csnap>>
    /\ UNCHANGED copyFrame
    /\ UNCHANGED <<syncVars, ballVars, trigVars, pairVars, pairHistVars, debugVars, refVars, misuseVars, legacyVars, immVars, expVars>>

\* The caller modifies the T it got (README: copy / modify / commit).
CopyModify(v) ==
    /\ wpc = "copied"
    /\ copied' = v
    /\ UNCHANGED <<ref_count, dispose_flags, wpc, crec, csnap>>
    /\ UNCHANGED copyFrame
    /\ UNCHANGED <<syncVars, ballVars, trigVars, pairVars, pairHistVars, debugVars, refVars, misuseVars, legacyVars, immVars, expVars>>

\* The caller has received nullptr from copy() and goes on.
CopyNullDone ==
    /\ wpc = "copynull"
    /\ csnap' = NoSnap
    /\ wpc' = "idle"
    /\ UNCHANGED <<ref_count, dispose_flags, crec, copied>>
    /\ UNCHANGED copyFrame
    /\ UNCHANGED <<syncVars, ballVars, trigVars, pairVars, pairHistVars, debugVars, refVars, misuseVars, legacyVars, immVars, expVars>>

\* The caller is done with the T: it goes on to commit(), or deletes it.
CopyDone ==
    /\ wpc = "copied"
    /\ copied' = Freed
    /\ csnap' = NoSnap
    /\ wpc' = "idle"
    /\ UNCHANGED <<ref_count, dispose_flags, crec>>
    /\ UNCHANGED copyFrame
    /\ UNCHANGED <<syncVars, ballVars, trigVars, pairVars, pairHistVars, debugVars, refVars, misuseVars, legacyVars, immVars, expVars>>

\* The writer is inside copy().
InCopy(pc) == pc \in {"copyload", "copyref", "copynew"}

NextCopy ==
    \/ NextObject
    \/ CopyLoad
    \/ CopyRef
    \/ CopyConstruct
    \/ CopyReturn
    \/ \E v \in Values : CopyModify(v)
    \/ CopyNullDone
    \/ CopyDone

\* A step that deletes a record is collect()'s delete of the entry it
\* checked, inside commit() or ~Object().
DeletesInCollect ==
    \A rec \in RecIds :
        (recState[rec] = "live" /\ recState'[rec] # "live") =>
            /\ wpc = "deleting"
            /\ wcur = rec
            /\ wdtor \/ wrec # Null

\* A step of get() or ~Immutable() on a reader thread, or of copy(), deletes
\* no record and removes no registry entry; it changes at most the dispose
\* flag of the record whose Immutable is destroyed, setting it.
ReadersNeverDelete ==
    ((rpc' # rpc) \/ InCopy(wpc)) =>
        /\ recState' = recState
        /\ recData' = recData
        /\ DOMAIN dispose_flags' = DOMAIN dispose_flags
        /\ \A rec \in DOMAIN dispose_flags :
               dispose_flags'[rec] # dispose_flags[rec] =>
                   /\ dispose_flags'[rec]
                   /\ \/ \E r \in Readers : rpc[r] = "disposing" /\ rrec[r] = rec
                      \/ wpc = "copynew" /\ crec = rec

\* C14: records are deleted only inside Book::collect(), which runs only from
\* commit() and from the Object's destruction; read().get(), copy() and the
\* destruction of an Immutable never delete a record (destroying an
\* Immutable at most sets that record's dispose flag).
DeletedOnlyInCollect == [][DeletesInCollect /\ ReadersNeverDelete]_vars

\* C14 witness: a reader destroyed the last Immutable of a superseded record:
\* its dispose flag is set, the record is still there.
DeletedOnlyInCollectWitness ==
    \E rec \in DOMAIN dispose_flags :
        /\ dispose_flags[rec]
        /\ recState[rec] = "live"
        /\ ref_count[rec] = 0
        /\ rec # last_written_record
        /\ wpc = "idle"
        /\ \A r \in Readers : rpc[r] = "idle"

\* What the Immutables held by the readers read.
ImmutableReads == [r \in Readers |-> IF Holds(r) THEN GetData(rrec[r]) ELSE Freed]

\* copy() has returned and the readers are where they were when it was called.
CopyReturnedQuiet ==
    /\ wpc = "copied"
    /\ csnap.rpc = rpc
    /\ csnap.rrec = rrec

\* The steps of copy() and of the caller's use of the T it returned (the
\* steps of the writer thread; every step of a reader changes its rpc): the
\* published pointer, the registry and the records stay as they are, the only
\* count that moves is the one of the record copy() took its reference on,
\* and no Immutable reads anything else than before.
CopyStepLeavesCell ==
    ((InCopy(wpc) \/ wpc = "copied") /\ rpc' = rpc) =>
        /\ last_written_record' = last_written_record
        /\ last_written_ref' = last_written_ref
        /\ dispose_flags' = dispose_flags
        /\ recState' = recState
        /\ recData' = recData
        /\ \A rec \in RecIds : rec # crec => ref_count'[rec] = ref_count[rec]
        /\ ImmutableReads' = ImmutableReads

\* C16: Object::copy(), called after at least one commit, returns a T equal
\* to the published value and has no net effect on the cell:
\* last_written_record_, the registry and every record's ref_count are the
\* same after as before; mutating the T never changes what an Immutable reads.
CopyHasNoNetEffect ==
    /\ [](wpc \in {"copynew", "copied"} =>
            /\ nStarted >= 1
            /\ last_written_record # Null
            /\ (wpc = "copynew" => copied = lastValue
                                   /\ copied = GetData(last_written_record)))
    /\ [](CopyReturnedQuiet =>
            /\ last_written_record = csnap.lwr
            /\ dispose_flags = csnap.flags
            /\ ref_count = csnap.rc)
    /\ [][CopyStepLeavesCell]_vars

\* C16 witness: copy() returned the second commit's value while a reader
\* holds an Immutable of it and another one of the first commit; the caller
\* then changed the T.
CopyHasNoNetEffectWitness ==
    /\ CopyReturnedQuiet
    /\ nStarted = 2
    /\ copied # lastValue
    /\ \E r, q \in Readers :
          /\ Holds(r) /\ rrec[r] = last_written_record
          /\ Holds(q) /\ rrec[q] # last_written_record
          /\ recState[rrec[q]] = "live"
          /\ GetData(rrec[r]) = lastValue

\* C29 as stated: copy() before any commit is asserted and never returns a
\* result to its caller.
CopyBeforeCommitNeverReturns == wpc # "copynull"

\* The step of copy() that tests its Immutable: an empty one makes the call
\* return nullptr, with no T constructed and nothing of the Object, the
\* registry or the counts changed; a non-empty one never does.
CopyNullStep ==
    (wpc = "copyload" /\ wpc' # wpc) =>
        /\ (wpc' = "copynull") <=> (crec = Null)
        /\ crec = Null =>
              /\ copied' = Freed
              /\ last_written_record' = last_written_record
              /\ ref_count' = ref_count
              /\ dispose_flags' = dispose_flags
              /\ recState' = recState

\* C29, amended: copy() before any commit returns nullptr to its caller, no
\* assertion is involved, and last_written_record_, the registry and every
\* ref_count are as they were when copy() was called.
CopyBeforeCommitReturnsNull ==
    /\ [][CopyNullStep]_vars
    /\ [](wpc = "copynull" =>
             /\ nStarted = 0
             /\ crec = Null
             /\ copied = Freed
             /\ last_written_record = Null
             /\ csnap.lwr = Null
             /\ ref_count = csnap.rc
             /\ dispose_flags = csnap.flags)
    /\ []((wpc = "copyload" /\ nStarted = 0) => crec = Null)

\* C29 witness: copy() has returned nullptr before the first commit, while a
\* reader is inside get().
CopyBeforeCommitReturnsNullWitness ==
    /\ wpc = "copynull"
    /\ nStarted = 0
    /\ \E r \in Readers : rpc[r] # "idle"

(***************************************************************************)
(* Object::commit() in a _DEBUG build: the unique_lock on                  *)
(* debug_.commit_mutex taken with std::try_to_lock, held until commit()    *)
(* returns.  Two threads call commit(); the thread that owns the lock runs *)
(* the steps of commit() above.                                            *)
(***************************************************************************)
InitDebug ==
    /\ commit_mutex = NoWriter
    /\ dpc = [t \in Writers |-> "out"]
    /\ dstart = 0
    /\ dattempt = [thread |-> NoWriter, busy |-> FALSE, threw |-> FALSE]

\* Mutant of TryLockFails: the lock is always granted (no check).
TryLockNeverFails(m) == FALSE

\* std::try_to_lock on a mutex owned by m: !lock.owns_lock()
TryLockFails(m) == m # NoWriter

\* Another thread is inside commit().
OtherInCommit(t) == \E u \in Writers \ {t} : dpc[u] = "in"

\* commit() is entered by thread t: the try-lock, and the throw of
\* std::runtime_error when the lock is not owned.
DebugCommitEnter(t) ==
    /\ dpc[t] = "out"
    /\ ObjectAlive
    /\ TryLockFails(commit_mutex) \/ nStarted < MaxCommits
    /\ dattempt' = [thread |-> t, busy |-> OtherInCommit(t),
                    threw |-> TryLockFails(commit_mutex)]
    /\ IF TryLockFails(commit_mutex)
         THEN UNCHANGED <<commit_mutex, dpc, dstart>>
         ELSE /\ commit_mutex' = t
              /\ dpc' = [dpc EXCEPT ![t] = "in"]
              /\ dstart' = nStarted
    /\ UNCHANGED <<objVars, syncVars, ballVars, trigVars, pairVars, pairHistVars, copyVars, refVars, misuseVars, legacyVars, immVars, expVars>>

\* The owner of the lock goes on to book_.make_record(data).
DebugMakeRecord(v) ==
    /\ \E t \in Writers : dpc[t] = "in" /\ commit_mutex = t
    /\ nStarted = dstart
    /\ MakeRecord(v)

\* commit() returns in thread t: ~unique_lock unlocks the mutex.
DebugCommitExit(t) ==
    /\ dpc[t] = "in"
    /\ commit_mutex = t
    /\ wpc = "idle"
    /\ nStarted > dstart
    /\ commit_mutex' = NoWriter
    /\ dpc' = [dpc EXCEPT ![t] = "out"]
    /\ UNCHANGED <<dstart, dattempt>>
    /\ UNCHANGED <<objVars, syncVars, ballVars, trigVars, pairVars, pairHistVars, copyVars, refVars, misuseVars, legacyVars, immVars, expVars>>

NextDebug ==
    \/ \E t \in Writers : DebugCommitEnter(t)
    \/ \E v \in Values : DebugMakeRecord(v)
    \/ MakeOut
    \/ StoreRecord
    \/ AssignUnref
    \/ AssignDispose
    \/ AssignRef
    \/ \E rec \in RecIds : CollectCheck(rec)
    \/ CollectDelete
    \/ CollectDone
    \/ CommitReturn
    \/ \E t \in Writers : DebugCommitExit(t)

\* A commit() that throws changes neither last_written_record_, nor
\* last_written_ref_, nor the registry and its records.
ThrowLeavesObject ==
    (dattempt' # dattempt /\ dattempt'.threw) =>
        UNCHANGED <<last_written_record, last_written_ref, dispose_flags,
                    recState, recData, ref_count, nStarted>>

CbRead(cb) == IF cb # Null /\ cbState[cb] = "live" THEN cbValue[cb] ELSE Freed

\* ref::ref_add: cb_->ref_count++
RefAdd(rc, cb) == [rc EXCEPT ![cb] = @ + 1]

\* ref::ref_sub: cb_->ref_count.fetch_sub(1) ...
RefSubCount(rc, cb) == [rc EXCEPT ![cb] = @ - 1]

\* ... == 1: delete cb_
RefSubState(st, rc, cb) == IF rc[cb] = 1 THEN [st EXCEPT ![cb] = "deleted"] ELSE st

\* Mutant of CanBeDeleted: a block with one more reference is collected too.
CanBeDeletedAtTwo(cb) == cb_ref_count[cb] <= 2

\* garbage_collect: can_be_deleted
CanBeDeleted(cb) == cb_ref_count[cb] = 1

\* garbage_.erase of the element at position i
RemoveAt(seq, i) == [j \in 1..(Len(seq) - 1) |-> IF j < i THEN seq[j] ELSE seq[j + 1]]

\* sync_signal::notify: value_++ on the counter's width
NotifyValue(v) == (v + 1) % SignalModulus

\* Mutant of Signalled: the test lets the reader poll again within a tick.
SignalledOrEqual(sig, slot) == sig >= slot

\* read_t::update: if (signal_value > slot_value_)
Signalled(sig, slot) == sig > slot

\* signal_synced_object(signal, args...): the object holds the control block
\* of the initial value, referenced by write.instance_; value_pending{true};
\* read.current_ is an empty ref and slot_value_ is 0.
InitSyncOf(v) ==
    /\ cbState = [c \in CbIds |-> IF c = 1 THEN "live" ELSE "free"]
    /\ cbValue = [c \in CbIds |-> IF c = 1 THEN v ELSE Freed]
    /\ cb_ref_count = [c \in CbIds |-> IF c = 1 THEN 1 ELSE 0]
    /\ control_block = 1
    /\ instance = 1
    /\ garbage = <<>>
    /\ value_pending = TRUE
    /\ signal_value = 0
    /\ slot_value = 0
    /\ current = Null
    /\ spc = "idle"
    /\ snew = Null
    /\ sold = Null
    /\ gcpos = 0
    /\ gpc = "idle"
    /\ gcb = Null
    /\ nSets = 0
    /\ lastSet = NoVal
    /\ expectVal = NoVal
    /\ callsInTick = 0
    /\ firstRet = NoVal
    /\ tickBlocks = {}

\* The blocks the reader of a stupid::object holds a ref into, or has loaded
\* the pointer of inside acquire().
ReaderBlocks == {cb \in CbIds : oheld[cb] > 0 \/ ocb = cb}

\* History of a signal_synced_object_pair's polls: nothing polled since the
\* most recent set() returned.
NoHist == [n |-> 0, later |-> [c \in Cells |-> "none"]]

\* The constructor arguments are any value.
InitSync == \E v \in Values : InitSyncOf(v)

syncTickHist == <<callsInTick, firstRet, tickBlocks>>
syncReaderVars == <<signal_value, slot_value, current, gpc, gcb>>

(***************************************************************************)
(* signal_synced_object::write_t::set(value) -> object::write_t::set,      *)
(* writer thread.  write.update(fn) is set() of fn applied to the value    *)
(* of instance_.                                                           *)
(***************************************************************************)
\* const auto old_instance{instance_}; const auto cb{new cb_t{value, 0}}
SetBegin(v) ==
    /\ spc = "idle"
    /\ nSets < MaxSets
    /\ LET cb == nSets + 2 IN
        /\ cbState' = [cbState EXCEPT ![cb] = "live"]
        /\ cbValue' = [cbValue EXCEPT ![cb] = v]
        /\ snew' = cb
    /\ cb_ref_count' = RefAdd(cb_ref_count, instance)
    /\ sold' = instance
    /\ nSets' = nSets + 1
    /\ expectVal' = NoVal
    /\ oduring' = ReaderBlocks
    /\ phist' = NoHist
    /\ spc' = "store"
    /\ UNCHANGED <<control_block, instance, garbage, value_pending, gcpos,
                   lastSet, syncReaderVars, syncTickHist>>
    /\ UNCHANGED <<opc, ocb, oheld>>
    /\ UNCHANGED <<objVars, ballVars, trigVars, pairVars, debugVars, copyVars, misuseVars, legacyVars, immVars, expVars>>

\* self_->critical_.control_block = cb
SetStore ==
    /\ spc = "store"
    /\ control_block' = snew
    /\ spc' = "refnew"
    /\ UNCHANGED <<cbState, cbValue, cb_ref_count, instance, garbage,
                   value_pending, snew, sold, gcpos, nSets, lastSet, expectVal,
                   syncReaderVars, syncTickHist>>
    /\ UNCHANGED <<objVars, ballVars, trigVars, pairVars, pairHistVars, debugVars, copyVars, refVars, misuseVars, legacyVars, immVars, expVars>>

\* instance_ = ref_t{cb}: the temporary's ref_add
SetRefNew ==
    /\ spc = "refnew"
    /\ cb_ref_count' = RefAdd(cb_ref_count, snew)
    /\ spc' = "unrefold"
    /\ UNCHANGED <<cbState, cbValue, control_block, instance, garbage,
                   value_pending, snew, sold, gcpos, nSets, lastSet, expectVal,
                   syncReaderVars, syncTickHist>>
    /\ UNCHANGED <<objVars, ballVars, trigVars, pairVars, pairHistVars, debugVars, copyVars, refVars, misuseVars, legacyVars, immVars, expVars>>

\* instance_ = ref_t{cb}: operator=(ref&&): ref_sub of the old cb_, cb_ = rhs.cb_
SetUnrefOld ==
    /\ spc = "unrefold"
    /\ cb_ref_count' = RefSubCount(cb_ref_count, instance)
    /\ cbState' = RefSubState(cbState, cb_ref_count, instance)
    /\ instance' = snew
    /\ spc' = "push"
    /\ UNCHANGED <<cbValue, control_block, garbage, value_pending, snew, sold,
                   gcpos, nSets, lastSet, expectVal, syncReaderVars,
                   syncTickHist>>
    /\ UNCHANGED <<objVars, ballVars, trigVars, pairVars, pairHistVars, debugVars, copyVars, refVars, misuseVars, legacyVars, immVars, expVars>>

\* garbage_.push_back(old_instance); garbage_collect() starts its remove_if
SetPush ==
    /\ spc = "push"
    /\ cb_ref_count' = RefAdd(cb_ref_count, sold)
    /\ garbage' = Append(garbage, sold)
    /\ gcpos' = 1
    /\ spc' = "gc"
    /\ UNCHANGED <<cbState, cbValue, control_block, instance, value_pending,
                   snew, sold, nSets, lastSet, expectVal, syncReaderVars,
                   syncTickHist>>
    /\ UNCHANGED <<objVars, ballVars, trigVars, pairVars, pairHistVars, debugVars, copyVars, refVars, misuseVars, legacyVars, immVars, expVars>>

\* garbage_collect: can_be_deleted(garbage_[gcpos])
GcCheck ==
    /\ spc = "gc"
    /\ gcpos <= Len(garbage)
    /\ IF CanBeDeleted(garbage[gcpos])
         THEN spc' = "gcdrop" /\ UNCHANGED gcpos
         ELSE gcpos' = gcpos + 1 /\ UNCHANGED spc
    /\ UNCHANGED <<cbState, cbValue, cb_ref_count, control_block, instance,
                   garbage, value_pending, snew, sold, nSets, lastSet,
                   expectVal, syncReaderVars, syncTickHist>>
    /\ UNCHANGED <<objVars, ballVars, trigVars, pairVars, pairHistVars, debugVars, copyVars, refVars, misuseVars, legacyVars, immVars, expVars>>

\* garbage_collect: the removed ref is released (ref_sub, delete at 1)
GcDrop ==
    /\ spc = "gcdrop"
    /\ cb_ref_count' = RefSubCount(cb_ref_count, garbage[gcpos])
    /\ cbState' = RefSubState(cbState, cb_ref_count, garbage[gcpos])
    /\ garbage' = RemoveAt(garbage, gcpos)
    /\ spc' = "gc"
    /\ UNCHANGED <<cbValue, control_block, instance, value_pending, snew, sold,
                   gcpos, nSets, lastSet, expectVal, syncReaderVars,
                   syncTickHist>>
    /\ UNCHANGED <<objVars, ballVars, trigVars, pairVars, pairHistVars, debugVars, copyVars, refVars, misuseVars, legacyVars, immVars, expVars>>

\* end of object::write_t::set: ~old_instance
SetDropOld ==
    /\ spc = "gc"
    /\ gcpos > Len(garbage)
    /\ cb_ref_count' = RefSubCount(cb_ref_count, sold)
    /\ cbState' = RefSubState(cbState, cb_ref_count, sold)
    /\ gcpos' = 0
    /\ sold' = Null
    /\ spc' = "pending"
    /\ UNCHANGED <<cbValue, control_block, instance, garbage, value_pending,
                   snew, nSets, lastSet, expectVal, syncReaderVars,
                   syncTickHist>>
    /\ UNCHANGED <<objVars, ballVars, trigVars, pairVars, pairHistVars, debugVars, copyVars, refVars, misuseVars, legacyVars, immVars, expVars>>

\* self_->critical_.value_pending = true; set() returns
SetPending ==
    /\ spc = "pending"
    /\ value_pending' = TRUE
    /\ lastSet' = cbValue[snew]
    /\ snew' = Null
    /\ spc' = "idle"
    /\ UNCHANGED <<cbState, cbValue, cb_ref_count, control_block, instance,
                   garbage, sold, gcpos, nSets, expectVal, syncReaderVars,
                   syncTickHist>>
    /\ UNCHANGED <<objVars, ballVars, trigVars, pairVars, pairHistVars, debugVars, copyVars, refVars, misuseVars, legacyVars, immVars, expVars>>

(***************************************************************************)
(* The reader (realtime) thread: sync_signal::notify and                   *)
(* signal_synced_object::read_t::get_value                                 *)
(***************************************************************************)
\* sync_signal::notify(), called between two get_value() calls
Notify ==
    /\ gpc = "idle"
    /\ signal_value' = NotifyValue(signal_value)
    /\ expectVal' = IF spc = "idle" THEN lastSet ELSE NoVal
    /\ callsInTick' = 0
    /\ firstRet' = NoVal
    /\ tickBlocks' = {}
    /\ UNCHANGED <<cbState, cbValue, cb_ref_count, control_block, instance,
                   garbage, value_pending, slot_value, current, spc, snew,
                   sold, gcpos, gpc, gcb, nSets, lastSet>>
    /\ UNCHANGED <<objVars, ballVars, trigVars, pairVars, pairHistVars, debugVars, copyVars, refVars, misuseVars, legacyVars, immVars, expVars>>

\* get_value() returns current_.get_value(): what the history keeps of it.
Returned(cb) ==
    /\ callsInTick' = IF callsInTick = 0 THEN 1 ELSE 2
    /\ firstRet' = IF callsInTick = 0 THEN CbRead(cb) ELSE firstRet
    /\ tickBlocks' = tickBlocks \cup {cb}

\* get_value() -> update(): the test of the signal, and when it passes
\* get_new_value_if_pending(): value_pending.exchange(false).  Without a
\* pending value slot_value_ is set and get_value() returns.
GetValueUpdate ==
    /\ gpc = "idle"
    /\ IF Signalled(signal_value, slot_value)
         THEN /\ value_pending' = FALSE
              /\ IF value_pending
                   THEN /\ gpc' = "acquire"
                        /\ UNCHANGED <<slot_value, syncTickHist>>
                   ELSE /\ slot_value' = signal_value
                        /\ Returned(current)
                        /\ UNCHANGED gpc
         ELSE /\ slot_value' = signal_value
              /\ Returned(current)
              /\ UNCHANGED <<value_pending, gpc>>
    /\ UNCHANGED <<cbState, cbValue, cb_ref_count, control_block, instance,
                   garbage, signal_value, current, spc, snew, sold, gcpos, gcb,
                   nSets, lastSet, expectVal>>
    /\ UNCHANGED <<objVars, ballVars, trigVars, pairVars, pairHistVars, debugVars, copyVars, refVars, misuseVars, legacyVars, immVars, expVars>>

\* object::read_t::acquire: cb = control_block.load()
AcquireLoad ==
    /\ gpc = "acquire"
    /\ gcb' = control_block
    /\ gpc' = "ref"
    /\ UNCHANGED <<cbState, cbValue, cb_ref_count, control_block, instance,
                   garbage, value_pending, signal_value, slot_value, current,
                   spc, snew, sold, gcpos, nSets, lastSet, expectVal,
                   syncTickHist>>
    /\ UNCHANGED <<objVars, ballVars, trigVars, pairVars, pairHistVars, debugVars, copyVars, refVars, misuseVars, legacyVars, immVars, expVars>>

\* object::read_t::acquire: ref_t{cb} -> ref_add
AcquireRef ==
    /\ gpc = "ref"
    /\ cb_ref_count' = RefAdd(cb_ref_count, gcb)
    /\ gpc' = "assign"
    /\ UNCHANGED <<cbState, cbValue, control_block, instance, garbage,
                   value_pending, signal_value, slot_value, current, spc, snew,
                   sold, gcpos, gcb, nSets, lastSet, expectVal, syncTickHist>>
    /\ UNCHANGED <<objVars, ballVars, trigVars, pairVars, pairHistVars, debugVars, copyVars, refVars, misuseVars, legacyVars, immVars, expVars>>

\* current_ = acquire(): operator=(ref&&) releases the old cb_ (ref_sub,
\* delete at 1); then slot_value_ = signal_value and get_value() returns.
AssignCurrent ==
    /\ gpc = "assign"
    /\ IF current = Null
         THEN UNCHANGED <<cb_ref_count, cbState>>
         ELSE /\ cb_ref_count' = RefSubCount(cb_ref_count, current)
              /\ cbState' = RefSubState(cbState, cb_ref_count, current)
    /\ current' = gcb
    /\ gcb' = Null
    /\ slot_value' = signal_value
    /\ Returned(gcb)
    /\ gpc' = "idle"
    /\ UNCHANGED <<cbValue, control_block, instance, garbage, value_pending,
                   signal_value, spc, snew, sold, gcpos, nSets, lastSet,
                   expectVal>>
    /\ UNCHANGED <<objVars, ballVars, trigVars, pairVars, pairHistVars, debugVars, copyVars, refVars, misuseVars, legacyVars, immVars, expVars>>

NextSync ==
    \/ \E v \in Values : SetBegin(v)
    \/ SetStore
    \/ SetRefNew
    \/ SetUnrefOld
    \/ SetPush
    \/ GcCheck
    \/ GcDrop
    \/ SetDropOld
    \/ SetPending
    \/ Notify
    \/ GetValueUpdate
    \/ AcquireLoad
    \/ AcquireRef
    \/ AssignCurrent

(***************************************************************************)
(* stupid::object<T> read directly: a reader thread calls read.acquire()   *)
(* and destroys the refs it holds, while the writer thread calls           *)
(* write.set() / write.update().                                           *)
(***************************************************************************)
InitRef ==
    /\ opc = "idle"
    /\ ocb = Null
    /\ oheld = [c \in CbIds |-> 0]
    /\ oduring = {}

\* The refs the reader holds, over the blocks 1 .. MaxSets + 1.
RECURSIVE SumUpTo(_, _)
SumUpTo(f, n) == IF n = 0 THEN 0 ELSE f[n] + SumUpTo(f, n - 1)

HeldRefs == SumUpTo(oheld, MaxSets + 1)

refFrame == <<cbValue, control_block, instance, garbage, value_pending,
              signal_value, slot_value, current, spc, snew, sold, gcpos, gpc,
              gcb, nSets, lastSet, expectVal, syncTickHist>>

\* read.acquire(): cb = control_block.load()
RefAcquireLoad ==
    /\ opc = "idle"
    /\ HeldRefs < MaxHeld
    /\ ocb' = control_block
    /\ opc' = "ref"
    /\ oduring' = oduring \cup {control_block}
    /\ UNCHANGED <<cbState, cb_ref_count, oheld>>
    /\ UNCHANGED refFrame
    /\ UNCHANGED <<objVars, ballVars, trigVars, pairVars, pairHistVars, debugVars, copyVars, misuseVars, legacyVars, immVars, expVars>>

\* read.acquire(): return ref_t{cb} -> ref_add
RefAcquireRef ==
    /\ opc = "ref"
    /\ cb_ref_count' = RefAdd(cb_ref_count, ocb)
    /\ oheld' = [oheld EXCEPT ![ocb] = @ + 1]
    /\ ocb' = Null
    /\ opc' = "idle"
    /\ UNCHANGED <<cbState, oduring>>
    /\ UNCHANGED refFrame
    /\ UNCHANGED <<objVars, ballVars, trigVars, pairVars, pairHistVars, debugVars, copyVars, misuseVars, legacyVars, immVars, expVars>>

\* ~ref of a ref the reader holds: ref_sub (fetch_sub, delete cb_ at 1)
RefDestroy(cb) ==
    /\ opc = "idle"
    /\ oheld[cb] > 0
    /\ cb_ref_count' = RefSubCount(cb_ref_count, cb)
    /\ cbState' = RefSubState(cbState, cb_ref_count, cb)
    /\ oheld' = [oheld EXCEPT ![cb] = @ - 1]
    /\ UNCHANGED <<opc, ocb, oduring>>
    /\ UNCHANGED refFrame
    /\ UNCHANGED <<objVars, ballVars, trigVars, pairVars, pairHistVars, debugVars, copyVars, misuseVars, legacyVars, immVars, expVars>>

NextRef ==
    \/ \E v \in Values : SetBegin(v)
    \/ SetStore
    \/ SetRefNew
    \/ SetUnrefOld
    \/ SetPush
    \/ GcCheck
    \/ GcDrop
    \/ SetDropOld
    \/ SetPending
    \/ RefAcquireLoad
    \/ RefAcquireRef
    \/ \E cb \in CbIds : RefDestroy(cb)

\* A step of the reader thread: every one of them changes opc or oheld.
ReaderStep == opc' # opc \/ oheld' # oheld

\* C15: a control block is deleted only inside write.set() / write.update(),
\* on the writer thread; no destruction of a reader-held ref deletes a
\* control block, for every interleaving of read.acquire() (load, then
\* increment), destruction of reader-held refs and write.set().
DeletedOnlyByWriter ==
    [][\A cb \in CbIds :
          (cbState[cb] = "live" /\ cbState'[cb] = "deleted") =>
              (~ReaderStep /\ spc # "idle")]_vars

\* C18: in every reachable state, the intermediate steps of set() between
\* the store of the new pointer and the writer's reference included, the
\* block critical_.control_block points to has ref_count >= 1 and is not
\* deleted.
PublishedBlockReferenced ==
    /\ cbState[control_block] = "live"
    /\ cb_ref_count[control_block] >= 1

\* The block the set() call in progress supersedes stays alive through
\* every step of that call, the steps of the reader included.
SupersededSurvivesSet ==
    (spc # "idle" /\ sold # Null /\ cbState[sold] = "live") =>
        cbState'[sold] = "live"

\* C28: the control block superseded by a write.set() call is never deleted
\* during that same call (garbage_collect() does not erase it, set() still
\* holds a reference); with no reader holding it, it is deleted during the
\* next set().  Set number k supersedes block k.
SupersededDeletedByNextSet ==
    /\ [][SupersededSurvivesSet]_vars
    /\ []((spc # "idle" /\ sold # Null /\ cbState[sold] = "live")
             => cb_ref_count[sold] >= 1)
    /\ []((nSets >= 2 /\ spc \in {"pending", "idle"}
              /\ (nSets - 1) \notin oduring) =>
             cbState[nSets - 1] = "deleted")

\* C28 witness: the second set() is over; it deleted block 1, which the
\* first set() had superseded and left in garbage_, and kept block 2, while
\* the reader holds a ref into block 3.
SupersededDeletedByNextSetWitness ==
    /\ nSets = 2
    /\ spc = "idle"
    /\ 1 \notin oduring
    /\ cbState[1] = "deleted"
    /\ cbState[2] = "live"
    /\ garbage = <<2>>
    /\ oheld[3] = 1

\* C35: in garbage_collect(), every ref stored in garbage_ refers to a
\* non-null control block that has not been deleted and whose ref_count is
\* above 0 (the two asserts of can_be_deleted never fail), whatever the
\* reader's acquire() and ~ref do meanwhile.
GarbageRefsValid ==
    spc \in {"gc", "gcdrop"} =>
        \A i \in 1..Len(garbage) :
            /\ garbage[i] # Null
            /\ cbState[garbage[i]] = "live"
            /\ cb_ref_count[garbage[i]] > 0

(***************************************************************************)
(* Claims about signal_synced_object                                       *)
(***************************************************************************)
\* C5: tick gating.  Between two consecutive notify() calls every
\* read.get_value() returns a reference into the same control block,
\* whatever write.set() / write.update() calls run during the tick.
TickGating == Cardinality(tickBlocks) <= 1

\* C5 witness: two get_value() calls returned in one tick while a set()
\* published a new control block in that tick.
TickGatingWitness ==
    /\ callsInTick = 2
    /\ tickBlocks = {current}
    /\ current # Null
    /\ control_block # current
    /\ value_pending

\* C6: pick-up after the tick.  When set(v) had returned before a notify() and
\* no further set() is entered, the first get_value() after that notify()
\* returns v.
PickUpAfterTick ==
    (callsInTick > 0 /\ expectVal # NoVal) => firstRet = expectVal

\* C33: for a signal_synced_object constructed with an initial value, every
\* read.get_value() returns a reference into a non-empty cached ref: current_
\* is never dereferenced while empty, whatever the signal value at the call,
\* before the first notify() included.
GetValueNeverEmpty == Null \notin tickBlocks

\* The first get_value() of a tick: update() runs with nothing returned yet
\* since the latest notify() (at least one notify() was made: the signal or
\* slot_value_ is not 0).
FirstGetOfTick ==
    /\ gpc = "idle"
    /\ callsInTick = 0
    /\ signal_value # 0 \/ slot_value # 0
    /\ signal_value' = signal_value
    /\ callsInTick' = 1 \/ gpc' = "acquire"

\* C34: tick gating across counter wrap-around.  With the signal counter a
\* w-bit unsigned integer that wraps to 0, for every notify(), the one that
\* wraps the counter included, the first read.get_value() after it consumes
\* a pending value if one is pending.
FirstGetConsumesPending ==
    [][(FirstGetOfTick /\ value_pending) => value_pending' = FALSE]_vars

(***************************************************************************)
(* stupid::signal_synced_object_pair.  critical_t and write_t are those of *)
(* signal_synced_object; read_t keeps one ref per cell and one             *)
(* slot_value_ for both.  One reader thread calls update(cell) and         *)
(* get_value(cell) and notifies the signal.                                *)
(***************************************************************************)
\* read_t::read_t initialises neither current_ (empty refs) nor have_value_
\* (std::array<bool, 2> without initialiser: indeterminate).
InitPairOf(hv) ==
    /\ pcurrent = [c \in Cells |-> Null]
    /\ have_value = hv
    /\ pslot = 0
    /\ ppc = "idle"
    /\ pcell = 0
    /\ pcb = Null
    /\ pget = FALSE
    /\ polledAt = [c \in Cells |-> NoVal]
    /\ pret = [cell |-> NoVal, own |-> FALSE, both |-> FALSE, pre |-> FALSE,
               latest |-> FALSE, each |-> FALSE, forced |-> "no"]
    /\ phist = NoHist

InitPair == \E hv \in [Cells -> BOOLEAN] : InitPairOf(hv)

\* The variables of the shared object and signal that read_t never writes.
pairFrame == <<cbValue, control_block, instance, garbage, signal_value,
               slot_value, current, spc, snew, sold, gcpos, gpc, gcb, nSets,
               lastSet, expectVal, syncTickHist>>

\* Mutant of FallbackCell: no fallback to the other cell.
FallbackCellSame(c) == c

\* get_value(cell): the other cell, 1 - cell
FallbackCell(c) == 1 - c

\* Cell c holds a reference to the control block of the most recent commit,
\* which has returned.
RetrievedLatest(c) ==
    have_value[c] /\ pcurrent[c] = control_block /\ spc = "idle"

\* update(c) has not been called since the most recent commit was entered.
NotPolledSince(c) == polledAt[c] < nSets

\* A set() has returned, no other was entered since, notify() was called
\* after the return, and since then update(0) and update(1) were each
\* called, in two different ticks.
EachPolledLater ==
    /\ nSets >= 1
    /\ spc = "idle"
    /\ \E c \in Cells : phist.later[c] = "cur" /\ phist.later[1 - c] = "old"

\* update(c) is called: the history of the polls since the most recent set()
\* returned.  exchanged: value_pending.exchange(false) returned true.  The
\* call is in a later tick when notify() was called since the return; it is
\* in another tick than the previous update() when the signal differs from
\* slot_value_.
PollHist(c, exchanged) ==
    IF nSets >= 1 /\ spc = "idle"
      THEN [n |-> IF exchanged THEN (IF phist.n = 0 THEN 1 ELSE 2) ELSE phist.n,
            later |-> IF expectVal = NoVal
                        THEN phist.later
                        ELSE [k \in Cells |->
                                IF k = c THEN "cur"
                                ELSE IF signal_value # pslot
                                        /\ phist.later[k] = "cur"
                                       THEN "old" ELSE phist.later[k]]]
      ELSE phist

\* get_value(c) returns a reference to the value of control block cb: the
\* cell, have_value_[cell], whether both cells hold a reference, and the two
\* conditions above, all at the call, and whether the value returned is that
\* of the most recent commit.
GetRecord(c, cb) ==
    [cell |-> c, own |-> have_value[c],
     both |-> \A k \in Cells : pcurrent[k] # Null,
     pre |-> RetrievedLatest(1 - c) /\ NotPolledSince(c),
     latest |-> CbRead(cb) = CbRead(control_block),
     each |-> EachPolledLater,
     forced |-> "no"]

\* get_value(c) returns after the update(c) it forced: assert(have_value_[c])
ForcedRecord(c, cb, hv) ==
    [GetRecord(c, cb) EXCEPT !.forced = IF hv THEN "ok" ELSE "failed"]

\* update(c) is running: the history of the polls.
Polled(c) ==
    [k \in Cells |-> IF k = c THEN nSets
                     ELSE IF polledAt[k] < nSets THEN NoVal ELSE polledAt[k]]

\* update(cell) up to get_new_value_if_pending's exchange: the test of the
\* signal, value_pending.exchange(false), and slot_value_ = signal_value
\* when there is nothing to acquire.
PairPoll(c, fromGet) ==
    /\ polledAt' = Polled(c)
    /\ phist' = PollHist(c, Signalled(signal_value, pslot) /\ value_pending)
    /\ IF Signalled(signal_value, pslot)
         THEN /\ value_pending' = FALSE
              /\ IF value_pending
                   THEN /\ ppc' = "acquire"
                        /\ pcell' = c
                        /\ pget' = fromGet
                        /\ UNCHANGED pslot
                   ELSE /\ pslot' = signal_value
                        /\ UNCHANGED <<ppc, pcell, pget>>
         ELSE /\ pslot' = signal_value
              /\ UNCHANGED <<value_pending, ppc, pcell, pget>>

\* read.update(cell) called by the reader
PairUpdate(c) ==
    /\ ppc = "idle"
    /\ PairPoll(c, FALSE)
    /\ UNCHANGED <<pcurrent, have_value, pcb, pret, cb_ref_count, cbState>>
    /\ UNCHANGED pairFrame
    /\ UNCHANGED <<objVars, ballVars, trigVars, debugVars, copyVars, refVars, misuseVars, legacyVars, immVars, expVars>>

\* read.get_value(cell): the cell's own value, else the other cell's, else
\* update(cell) and the cell's own value.
PairGetValue(c) ==
    /\ ppc = "idle"
    /\ IF have_value[c]
         THEN /\ pret' = GetRecord(c, pcurrent[c])
              /\ UNCHANGED <<value_pending, pslot, ppc, pcell, pget, polledAt,
                             phist>>
         ELSE IF have_value[FallbackCell(c)]
         THEN /\ pret' = GetRecord(c, pcurrent[FallbackCell(c)])
              /\ UNCHANGED <<value_pending, pslot, ppc, pcell, pget, polledAt,
                             phist>>
         ELSE /\ PairPoll(c, TRUE)
              /\ IF Signalled(signal_value, pslot) /\ value_pending
                   THEN UNCHANGED pret
                   ELSE pret' = ForcedRecord(c, pcurrent[c], have_value[c])
    /\ UNCHANGED <<pcurrent, have_value, pcb, cb_ref_count, cbState>>
    /\ UNCHANGED pairFrame
    /\ UNCHANGED <<objVars, ballVars, trigVars, debugVars, copyVars, refVars, misuseVars, legacyVars, immVars, expVars>>

\* object::read_t::acquire: cb = control_block.load()
PairAcquireLoad ==
    /\ ppc = "acquire"
    /\ pcb' = control_block
    /\ ppc' = "ref"
    /\ UNCHANGED <<pcurrent, have_value, pslot, pcell, pget, polledAt, pret,
                   phist, value_pending, cb_ref_count, cbState>>
    /\ UNCHANGED pairFrame
    /\ UNCHANGED <<objVars, ballVars, trigVars, debugVars, copyVars, refVars, misuseVars, legacyVars, immVars, expVars>>

\* object::read_t::acquire: ref_t{cb} -> ref_add
PairAcquireRef ==
    /\ ppc = "ref"
    /\ cb_ref_count' = RefAdd(cb_ref_count, pcb)
    /\ ppc' = "assign"
    /\ UNCHANGED <<pcurrent, have_value, pslot, pcell, pcb, pget, polledAt,
                   pret, phist, value_pending, cbState>>
    /\ UNCHANGED pairFrame
    /\ UNCHANGED <<objVars, ballVars, trigVars, debugVars, copyVars, refVars, misuseVars, legacyVars, immVars, expVars>>

\* current_[cell] = acquire(): operator=(ref&&) releases the old cb_;
\* have_value_[cell] = true; slot_value_ = signal_value; get_value(), when it
\* made the call, returns current_[cell].get_value().
PairAssign ==
    /\ ppc = "assign"
    /\ IF pcurrent[pcell] = Null
         THEN UNCHANGED <<cb_ref_count, cbState>>
         ELSE /\ cb_ref_count' = RefSubCount(cb_ref_count, pcurrent[pcell])
              /\ cbState' = RefSubState(cbState, cb_ref_count, pcurrent[pcell])
    /\ pcurrent' = [pcurrent EXCEPT ![pcell] = pcb]
    /\ have_value' = [have_value EXCEPT ![pcell] = TRUE]
    /\ pslot' = signal_value
    /\ pret' = IF pget
                 THEN ForcedRecord(pcell, pcb, TRUE)
                 ELSE pret
    /\ pcb' = Null
    /\ pget' = FALSE
    /\ ppc' = "idle"
    /\ polledAt' = Polled(pcell)
    /\ UNCHANGED <<pcell, value_pending, phist>>
    /\ UNCHANGED pairFrame
    /\ UNCHANGED <<objVars, ballVars, trigVars, debugVars, copyVars, refVars, misuseVars, legacyVars, immVars, expVars>>

\* sync_signal::notify(), called by the reader between two calls
PairNotify ==
    /\ ppc = "idle"
    /\ Notify

NextPair ==
    \/ \E v \in Values : SetBegin(v)
    \/ SetStore
    \/ SetRefNew
    \/ SetUnrefOld
    \/ SetPush
    \/ GcCheck
    \/ GcDrop
    \/ SetDropOld
    \/ SetPending
    \/ PairNotify
    \/ \E c \in Cells : PairUpdate(c)
    \/ \E c \in Cells : PairGetValue(c)
    \/ PairAcquireLoad
    \/ PairAcquireRef
    \/ PairAssign

(***************************************************************************)
(* Claims about signal_synced_object_pair                                  *)
(***************************************************************************)
\* C11 as stated: dual-slot fallback.  Whenever the other cell has retrieved
\* the most recent commit and this cell has not polled since that commit,
\* get_value(cell) returns the value the other cell retrieved.  Stated for
\* the calls made when each cell holds a reference it retrieved.
DualSlotFallback ==
    (pret.cell # NoVal /\ pret.pre /\ pret.both) => pret.latest

\* C11: dual-slot fallback of an empty cell.  Whenever the other cell has
\* retrieved the most recent commit, this cell has not polled since that
\* commit and have_value_[cell] is false, get_value(cell) returns the value
\* the other cell retrieved.
DualSlotFallbackWhenEmpty ==
    (pret.cell # NoVal /\ pret.pre /\ ~pret.own) => pret.latest

\* C11 witness: after a set() and a notify() cell 1 retrieved the new value,
\* and get_value(0) of the empty cell 0 returned it.
DualSlotFallbackWitness ==
    /\ pret.cell = 0
    /\ pret.pre
    /\ ~pret.own
    /\ pret.latest
    /\ nSets >= 1
    /\ spc = "idle"
    /\ pcurrent[0] = Null
    /\ pcurrent[1] = control_block

\* C22: the single value_pending flag is consumed exactly once per
\* publication: for each write.set() after which the reader polls (update(0)
\* or update(1)) in a later tick before the next set(), exactly one
\* reader-side exchange of value_pending returns true, and no second poll
\* refreshes again.
ConsumedOncePerPublication ==
    (nSets >= 1 /\ spc = "idle") =>
        /\ phist.n <= 1
        /\ (\E c \in Cells : phist.later[c] # "none") => phist.n = 1

\* C23: a slot that polls less often is not stalled: after write.set(v) has
\* returned, if update(0) and update(1) are each called in later, distinct
\* ticks with no further set(), get_value(0) and get_value(1) return v.
\* Stated for the calls made when each cell holds a reference it retrieved.
NoStalledSlot ==
    (pret.cell # NoVal /\ pret.each /\ pret.both) => pret.latest

\* C24: when neither slot holds a value, get_value(cell) forces update(cell),
\* after which slot cell holds a value: the assertion have_value_[cell]
\* never fails, for any signal value at the call, before the first notify()
\* included.
ForcedUpdateFillsSlot == pret.forced # "failed"

(***************************************************************************)
(* stupid::beach_ball and beach_ball_player<player>, one thread per player  *)
(***************************************************************************)
Other(p) == 1 - p

\* beach_ball(first_catcher): thrown_to_.store(first_catcher); have_ball_{}
InitBallOf(fc) ==
    /\ first_catcher = fc
    /\ thrown_to = first_catcher
    /\ have_ball = [p \in Players |-> FALSE]
    /\ bpc = [p \in Players |-> "idle"]
    /\ lastResult = [p \in Players |-> "none"]
    /\ nThrows = 0
    /\ ballLog = <<>>
    /\ owed = NO_PLAYER

\* Either player can be the first catcher.
InitBall == \E fc \in Players : InitBallOf(fc)

\* Mutant of ThrowTarget: the ball is thrown to the thrower.
ThrowTargetSelf(p) == p

\* beach_ball::throw_ball<player>: the value stored, 1 - player
ThrowTarget(p) == 1 - p

\* Mutant of CatchExpected: the exchange succeeds on the other player's ball.
CatchExpectedOther(p) == 1 - p

\* beach_ball::catch_ball<player>: int tmp{ player }, the value
\* compare_exchange_weak expects in thrown_to_
CatchExpected(p) == p

\* Mutant of CatchDesired: a successful exchange leaves the player's id.
CatchDesiredSelf(p) == p

\* beach_ball::catch_ball<player>: the value compare_exchange_weak stores
\* when it succeeds
CatchDesired(p) == NO_PLAYER

\* Mutant of EnsureHeld: ensure() tries a catch although have_ball_ is set, and
\* returns its result.
EnsureHeldCatches(p) ==
    /\ bpc[p] = "idle"
    /\ have_ball[p]
    /\ lastResult' = [lastResult EXCEPT ![p] = "false"]
    /\ UNCHANGED <<first_catcher, thrown_to, have_ball, bpc, nThrows, ballLog,
                   owed>>
    /\ UNCHANGED <<objVars, syncVars, trigVars, pairVars, pairHistVars, debugVars, copyVars, refVars, misuseVars, legacyVars, immVars, expVars>>

\* beach_ball_player::ensure() with have_ball_ set: returns true and does
\* not touch the ball.
EnsureHeld(p) ==
    /\ bpc[p] = "idle"
    /\ have_ball[p]
    /\ lastResult' = [lastResult EXCEPT ![p] = "true"]
    /\ UNCHANGED <<first_catcher, thrown_to, have_ball, bpc, nThrows, ballLog,
                   owed>>
    /\ UNCHANGED <<objVars, syncVars, trigVars, pairVars, pairHistVars, debugVars, copyVars, refVars, misuseVars, legacyVars, immVars, expVars>>

\* catch_ball() (directly or from ensure() without the ball): the
\* compare_exchange_weak finds thrown_to_ == player and stores NO_PLAYER.
CatchExchange(p) ==
    /\ bpc[p] = "idle"
    /\ ~have_ball[p]
    /\ thrown_to = CatchExpected(p)
    /\ thrown_to' = CatchDesired(p)
    /\ bpc' = [bpc EXCEPT ![p] = "caught"]
    /\ ballLog' = Append(ballLog, <<"catch", p>>)
    /\ owed' = IF owed = p THEN NO_PLAYER ELSE owed
    /\ UNCHANGED <<first_catcher, have_ball, lastResult, nThrows>>
    /\ UNCHANGED <<objVars, syncVars, trigVars, pairVars, pairHistVars, debugVars, copyVars, refVars, misuseVars, legacyVars, immVars, expVars>>

\* catch_ball() after a successful exchange: have_ball_ = true; return true
CatchReturnTrue(p) ==
    /\ bpc[p] = "caught"
    /\ have_ball' = [have_ball EXCEPT ![p] = TRUE]
    /\ lastResult' = [lastResult EXCEPT ![p] = "true"]
    /\ bpc' = [bpc EXCEPT ![p] = "idle"]
    /\ UNCHANGED <<first_catcher, thrown_to, nThrows, ballLog, owed>>
    /\ UNCHANGED <<objVars, syncVars, trigVars, pairVars, pairHistVars, debugVars, copyVars, refVars, misuseVars, legacyVars, immVars, expVars>>

\* Mutant of CatchFail: a failing catch_ball() takes the ball out of the air.
CatchFailSteals(p) ==
    /\ bpc[p] = "idle"
    /\ ~have_ball[p]
    /\ thrown_to' = NO_PLAYER
    /\ lastResult' = [lastResult EXCEPT ![p] = "false"]
    /\ UNCHANGED <<first_catcher, have_ball, bpc, nThrows, ballLog, owed>>
    /\ UNCHANGED <<objVars, syncVars, trigVars, pairVars, pairHistVars, debugVars, copyVars, refVars, misuseVars, legacyVars, immVars, expVars>>

\* catch_ball() whose compare_exchange_weak fails: the ball is not thrown to
\* this player, or the failure is spurious.  Returns have_ball_ (false).
CatchFail(p) ==
    /\ bpc[p] = "idle"
    /\ ~have_ball[p]
    /\ lastResult' = [lastResult EXCEPT ![p] = "false"]
    /\ UNCHANGED <<first_catcher, thrown_to, have_ball, bpc, nThrows, ballLog,
                   owed>>
    /\ UNCHANGED <<objVars, syncVars, trigVars, pairVars, pairHistVars, debugVars, copyVars, refVars, misuseVars, legacyVars, immVars, expVars>>

\* Mutant of ThrowBegin: have_ball_ is not cleared.
ThrowBeginKeepsFlag(p) ==
    /\ bpc[p] = "idle"
    /\ have_ball[p]
    /\ nThrows < MaxThrows
    /\ nThrows' = nThrows + 1
    /\ bpc' = [bpc EXCEPT ![p] = "throwing"]
    /\ UNCHANGED <<first_catcher, thrown_to, have_ball, lastResult, ballLog,
                   owed>>
    /\ UNCHANGED <<objVars, syncVars, trigVars, pairVars, pairHistVars, debugVars, copyVars, refVars, misuseVars, legacyVars, immVars, expVars>>

\* beach_ball_player::throw_ball(): assert(have_ball_); have_ball_ = false
ThrowBegin(p) ==
    /\ bpc[p] = "idle"
    /\ have_ball[p]
    /\ nThrows < MaxThrows
    /\ nThrows' = nThrows + 1
    /\ have_ball' = [have_ball EXCEPT ![p] = FALSE]
    /\ bpc' = [bpc EXCEPT ![p] = "throwing"]
    /\ UNCHANGED <<first_catcher, thrown_to, lastResult, ballLog, owed>>
    /\ UNCHANGED <<objVars, syncVars, trigVars, pairVars, pairHistVars, debugVars, copyVars, refVars, misuseVars, legacyVars, immVars, expVars>>

\* ball->throw_ball<player>(): thrown_to_.store(1 - player)
ThrowStore(p) ==
    /\ bpc[p] = "throwing"
    /\ thrown_to' = ThrowTarget(p)
    /\ bpc' = [bpc EXCEPT ![p] = "idle"]
    /\ ballLog' = Append(ballLog, <<"throw", p>>)
    /\ owed' = Other(p)
    /\ UNCHANGED <<first_catcher, have_ball, lastResult, nThrows>>
    /\ UNCHANGED <<objVars, syncVars, trigVars, pairVars, pairHistVars, debugVars, copyVars, refVars, misuseVars, legacyVars, immVars, expVars>>

NextBall ==
    \/ \E p \in Players : EnsureHeld(p)
    \/ \E p \in Players : CatchExchange(p)
    \/ \E p \in Players : CatchReturnTrue(p)
    \/ \E p \in Players : CatchFail(p)
    \/ \E p \in Players : ThrowBegin(p)
    \/ \E p \in Players : ThrowStore(p)

\* Player p has the ball: its catch_ball() exchanged successfully, or its
\* have_ball_ is set, or it is inside throw_ball() before the store.
Possesses(p) == bpc[p] \in {"caught", "throwing"} \/ have_ball[p]

\* C17 as stated: the beach ball has exactly two states, thrown_to_ is always
\* one of the two player ids, and no reachable state has the ball held by
\* neither player.
TwoStateBall == thrown_to \in Players

\* C17 (amended): thrown_to_ is a player id or NO_PLAYER; it is NO_PLAYER
\* exactly while one player has caught the ball and not yet thrown it, so
\* that the ball is always either thrown to a player or possessed by
\* exactly one.
ThreeStateBall ==
    /\ thrown_to \in Players \cup {NO_PLAYER}
    /\ thrown_to = NO_PLAYER <=> \E p \in Players : Possesses(p)
    /\ ~(Possesses(0) /\ Possesses(1))

\* C17 witness: after a throw, the other player caught the ball and holds it.
ThreeStateBallWitness ==
    /\ thrown_to = NO_PLAYER
    /\ nThrows >= 1
    /\ have_ball[Other(first_catcher)]
    /\ bpc = [p \in Players |-> "idle"]

\* A step of catch_ball<p>(): one that returns false changes neither
\* thrown_to_ nor a have_ball_; the exchange that makes it return true finds
\* thrown_to_ == p and stores NO_PLAYER in the same step, and only after it
\* is have_ball_ set.
CatchStep ==
    \A p \in Players :
        /\ (lastResult'[p] = "false" /\ lastResult[p] # "false") =>
              /\ thrown_to' = thrown_to
              /\ have_ball' = have_ball
        /\ (bpc[p] = "idle" /\ bpc'[p] = "caught") =>
              /\ thrown_to = p
              /\ thrown_to' = NO_PLAYER
              /\ have_ball' = have_ball
        /\ (~have_ball[p] /\ have_ball'[p]) =>
              /\ bpc[p] = "caught"
              /\ lastResult'[p] = "true"
              /\ thrown_to' = thrown_to

\* C25: a catch_ball<p>() that returns false (ball not thrown to p, or a
\* spurious compare_exchange_weak failure) leaves thrown_to_ and both
\* players' have_ball_ unchanged; one that returns true happens only when
\* thrown_to_ == p and atomically sets thrown_to_ to NO_PLAYER.
CatchFrame == [][CatchStep]_vars

\* C25 witness: player 1's last catch_ball() failed while the ball, thrown
\* back to player 0, was caught by player 0.
CatchFrameWitness ==
    /\ lastResult[1] = "false"
    /\ lastResult[0] = "true"
    /\ have_ball[0]
    /\ thrown_to = NO_PLAYER
    /\ nThrows >= 2
    /\ bpc = [p \in Players |-> "idle"]

\* A step in which ensure() or catch_ball() of player p returns: its result
\* is true iff have_ball_ is set at the return; with have_ball_ set before
\* the call, the step does not touch the beach_ball.
EnsureStep ==
    \A p \in Players :
        /\ (lastResult'[p] # lastResult[p]
               \/ (bpc[p] = "caught" /\ bpc'[p] = "idle")) =>
              (lastResult'[p] = "true" <=> have_ball'[p])
        /\ (have_ball[p] /\ bpc[p] = "idle" /\ bpc'[p] = "idle") =>
              /\ thrown_to' = thrown_to
              /\ have_ball'[p]

\* C26: beach_ball_player::ensure() returns true iff the player holds the
\* ball when it returns; if the player already holds the ball it performs no
\* operation on the shared beach_ball, otherwise it performs exactly one
\* catch attempt and returns its result.
EnsureResult ==
    /\ [][EnsureStep]_vars
    /\ [](\A p \in Players :
            (have_ball[p] /\ bpc[p] = "idle") => lastResult[p] = "true")

\* C26 witness: the first catcher holds the ball again after a full round,
\* its ensure() returned true; the other player's last attempt failed.
EnsureResultWitness ==
    /\ have_ball[first_catcher]
    /\ lastResult[first_catcher] = "true"
    /\ lastResult[Other(first_catcher)] = "false"
    /\ nThrows = 2
    /\ bpc = [p \in Players |-> "idle"]

(***************************************************************************)
(* throw_ball() called by a role that does not hold the ball               *)
(***************************************************************************)
InitMisuse == bmisuse = "none"

\* beach_ball_player::throw_ball() without the ball.  With assertions
\* compiled in, assert(have_ball_) stops the program; with NDEBUG,
\* have_ball_ = false and ball->throw_ball<player>() stores 1 - player.
ThrowUnheld(p) ==
    /\ bmisuse = "none"
    /\ bpc[p] = "idle"
    /\ ~have_ball[p]
    /\ \/ /\ bmisuse' = "asserted"
          /\ UNCHANGED thrown_to
       \/ /\ bmisuse' = "tolerated"
          /\ thrown_to' = ThrowTarget(p)
    /\ UNCHANGED <<first_catcher, have_ball, bpc, lastResult, nThrows,
                   ballLog, owed>>
    /\ UNCHANGED <<objVars, syncVars, trigVars, pairVars, pairHistVars, debugVars, copyVars, refVars, legacyVars, immVars, expVars>>

\* beach_ball::throw_ball<player>() called directly by a role that has not
\* caught the ball: thrown_to_.store(1 - player), no test of any kind.
DirectThrowUnheld(p) ==
    /\ bmisuse = "none"
    /\ bpc[p] = "idle"
    /\ ~have_ball[p]
    /\ bmisuse' = "tolerated"
    /\ thrown_to' = ThrowTarget(p)
    /\ UNCHANGED <<first_catcher, have_ball, bpc, lastResult, nThrows,
                   ballLog, owed>>
    /\ UNCHANGED <<objVars, syncVars, trigVars, pairVars, pairHistVars, debugVars, copyVars, refVars, legacyVars, immVars, expVars>>

\* A failed assertion ends the program.
NextBallMisuse ==
    \/ bmisuse # "asserted" /\ NextBall
    \/ \E p \in Players : ThrowUnheld(p)
    \/ \E p \in Players : DirectThrowUnheld(p)

\* C27: throwing without holding is never silently tolerated: a throw_ball
\* for a role that does not hold the ball is detected as a usage violation
\* and never changes thrown_to_, through beach_ball_player::throw_ball() and
\* directly through beach_ball::throw_ball<player>().
ThrowWithoutBallDetected ==
    [][(bmisuse = "none" /\ bmisuse' # "none") =>
          (bmisuse' = "asserted" /\ thrown_to' = thrown_to)]_vars

\* A player that keeps calling catch_ball() while the ball is thrown to it,
\* with only finitely many spurious failures, gets a successful exchange,
\* and catch_ball() then runs to its return.
BallFairness ==
    \A p \in Players :
        WF_vars(CatchExchange(p)) /\ WF_vars(CatchReturnTrue(p))

(***************************************************************************)
(* Claims about beach_ball                                                 *)
(***************************************************************************)
\* C7: alternation mutual exclusion.  At most one of the two players has
\* have_ball() == true at any instant.
MutualExclusion == ~(have_ball[0] /\ have_ball[1])

\* C7 witness: the ball went from the first catcher to the other player, who
\* holds it now.
MutualExclusionWitness ==
    /\ have_ball[Other(first_catcher)]
    /\ ~have_ball[first_catcher]
    /\ nThrows >= 1

\* C8: hand-off liveness.  Every throw_ball() is eventually followed by a
\* catch_ball() of the other player that returns true.
HandOffLiveness == \A p \in Players : (owed = p) ~> have_ball[p]

\* C8 witness: a ball thrown by one player has been caught by the other,
\* after a catch_ball() of that player had returned false.
HandOffWitness ==
    \E p \in Players :
        /\ Len(ballLog) >= 3
        /\ ballLog[Len(ballLog)] = <<"catch", p>>
        /\ ballLog[Len(ballLog) - 1] = <<"throw", Other(p)>>
        /\ have_ball[p]
        /\ lastResult[Other(p)] = "false"

\* The catches in the log before position i.
CatchesBefore(i) == {j \in 1..(i - 1) : ballLog[j][1] = "catch"}

\* The last catch of player p before position i (0: none).
PrevCatch(p, i) ==
    LET own == {j \in CatchesBefore(i) : ballLog[j][2] = p}
    IN IF own = {} THEN 0 ELSE CHOOSE j \in own : \A k \in own : k <= j

\* C9: hand-off ordering.  Every successful catch of player p follows a
\* throw of the other player made since p's previous successful catch, or is
\* the first catch of all, made by first_catcher.
HandOffOrdering ==
    \A i \in 1..Len(ballLog) :
        ballLog[i][1] = "catch" =>
            LET p == ballLog[i][2] IN
                \/ \E k \in (PrevCatch(p, i) + 1)..(i - 1) :
                       ballLog[k] = <<"throw", Other(p)>>
                \/ CatchesBefore(i) = {} /\ p = first_catcher

\* C9 witness: both players caught, the first catcher twice.
HandOffOrderingWitness ==
    /\ Len(ballLog) >= 5
    /\ ballLog[1] = <<"catch", first_catcher>>
    /\ ballLog[3] = <<"catch", Other(first_catcher)>>
    /\ ballLog[5] = <<"catch", first_catcher>>

(***************************************************************************)
(* stupid::trigger                                                         *)
(***************************************************************************)
\* trigger::trigger(): flag_.test_and_set(memory_order)
InitTrigger ==
    /\ flag = TRUE
    /\ trigLog = <<>>

\* Mutant of ConsumeResult: the negation is left out.
ConsumeResultRaw(f) == f

\* trigger::operator bool: !(flag_.test_and_set(memory_order_))
ConsumeResult(f) == ~f

\* trigger::operator()(): flag_.clear(memory_order_)
Fire ==
    /\ Len(trigLog) < MaxTriggerOps
    /\ flag' = FALSE
    /\ trigLog' = Append(trigLog, "fire")
    /\ UNCHANGED <<objVars, syncVars, ballVars, pairVars, pairHistVars, debugVars, copyVars, refVars, misuseVars, legacyVars, immVars, expVars>>

\* trigger::operator bool(): test_and_set, negated
Consume ==
    /\ Len(trigLog) < MaxTriggerOps
    /\ flag' = TRUE
    /\ trigLog' = Append(trigLog, IF ConsumeResult(flag) THEN "true" ELSE "false")
    /\ UNCHANGED <<objVars, syncVars, ballVars, pairVars, pairHistVars, debugVars, copyVars, refVars, misuseVars, legacyVars, immVars, expVars>>

NextTrigger == Fire \/ Consume

\* Fire was called since the consume before position i of the log, or since
\* construction.
FiredSince(i) ==
    \E j \in 1..(i - 1) :
        /\ trigLog[j] = "fire"
        /\ \A k \in (j + 1)..(i - 1) : trigLog[k] = "fire"

\* C10: trigger latch.  A consume returns true iff fire was called at least
\* once since the previous consume (or since construction).
TriggerLatch ==
    \A i \in 1..Len(trigLog) :
        trigLog[i] # "fire" => (trigLog[i] = "true" <=> FiredSince(i))

\* C10 witness: a consume right after construction, then several fires
\* answered by exactly one true, then a consume with no fire in between.
TriggerLatchWitness ==
    /\ Len(trigLog) >= 5
    /\ SubSeq(trigLog, 1, 5) = <<"false", "fire", "fire", "true", "false">>

(***************************************************************************)
(* The earlier stupid::Object: an atomic next_ the writer's commit()       *)
(* exchanges a new version into and the reader's get_next() exchanges      *)
(* nullptr into, recent_, and an ObjectManager whose GarbageDisposal holds *)
(* one entry per version.  Versions are numbered in commit order.          *)
(***************************************************************************)
Versions == 1..MaxLegacyCommits

InitLegacy ==
    /\ next_ = Null
    /\ recent_ = Null
    /\ prev_next = Null
    /\ lwpc = "idle"
    /\ current_ = Null
    /\ retrieved_ = Null
    /\ lrpc = "idle"
    /\ unmanaged = {}
    /\ gdState = [v \in Versions |-> "free"]
    /\ gdFlag = [v \in Versions |-> FALSE]
    /\ handed = [v \in Versions |-> 0]
    /\ taken = [v \in Versions |-> 0]

\* GarbageDisposal::create_entry(object)
CreateEntry(st, v) == [st EXCEPT ![v] = "live"]

\* GarbageDisposal::dispose(object): the entry is flagged
DisposeEntry(fl, v) == [fl EXCEPT ![v] = TRUE]

\* GarbageDisposal::collect(): every flagged entry is deleted
CollectEntries(st, fl) ==
    [v \in Versions |-> IF st[v] = "live" /\ fl[v] THEN "deleted" ELSE st[v]]

\* History: one more hand-out, or one more disposal, of version v.
Count(h, v) == [h EXCEPT ![v] = @ + 1]

\* commit(setup): recent_ = setup.object_; setup.object_ = nullptr;
\* manager_.add(recent_)
LegacyCommitBegin ==
    /\ lwpc = "idle"
    /\ recent_ < MaxLegacyCommits
    /\ recent_' = recent_ + 1
    /\ gdState' = CreateEntry(gdState, recent_ + 1)
    /\ lwpc' = "exchange"
    /\ UNCHANGED <<next_, prev_next, current_, retrieved_, lrpc, unmanaged,
                   gdFlag, handed, taken>>
    /\ UNCHANGED <<objVars, syncVars, ballVars, trigVars, pairVars, pairHistVars, debugVars, copyVars, refVars, misuseVars, immVars, expVars>>

\* auto prev_next = next_.exchange(recent_)
LegacyCommitExchange ==
    /\ lwpc = "exchange"
    /\ prev_next' = next_
    /\ next_' = recent_
    /\ lwpc' = "dispose"
    /\ UNCHANGED <<recent_, current_, retrieved_, lrpc, unmanaged, gdState,
                   gdFlag, handed, taken>>
    /\ UNCHANGED <<objVars, syncVars, ballVars, trigVars, pairVars, pairHistVars, debugVars, copyVars, refVars, misuseVars, immVars, expVars>>

\* if (prev_next) manager_.dispose(prev_next)
LegacyCommitDispose ==
    /\ lwpc = "dispose"
    /\ IF prev_next # Null
         THEN /\ gdFlag' = DisposeEntry(gdFlag, prev_next)
              /\ taken' = Count(taken, prev_next)
         ELSE UNCHANGED <<gdFlag, taken>>
    /\ prev_next' = Null
    /\ lwpc' = "collect"
    /\ UNCHANGED <<next_, recent_, current_, retrieved_, lrpc, unmanaged,
                   gdState, handed>>
    /\ UNCHANGED <<objVars, syncVars, ballVars, trigVars, pairVars, pairHistVars, debugVars, copyVars, refVars, misuseVars, immVars, expVars>>

\* manager_.collect(), the last statement of commit()
LegacyCommitCollect ==
    /\ lwpc = "collect"
    /\ gdState' = CollectEntries(gdState, gdFlag)
    /\ lwpc' = "idle"
    /\ UNCHANGED <<next_, recent_, prev_next, current_, retrieved_, lrpc,
                   unmanaged, gdFlag, handed, taken>>
    /\ UNCHANGED <<objVars, syncVars, ballVars, trigVars, pairVars, pairHistVars, debugVars, copyVars, refVars, misuseVars, immVars, expVars>>

\* ~Object(): if (next_) manager_.dispose(next_); manager_.collect().  The
\* Object is destroyed once the reader thread is outside its calls and has
\* disposed of its unmanaged versions; it makes no call afterwards.
LegacyDestroy ==
    /\ lwpc = "idle"
    /\ lrpc = "idle"
    /\ unmanaged = {}
    /\ recent_ >= 1
    /\ LET fl == IF next_ # Null THEN DisposeEntry(gdFlag, next_) ELSE gdFlag
       IN  /\ gdFlag' = fl
           /\ gdState' = CollectEntries(gdState, fl)
    /\ taken' = IF next_ # Null THEN Count(taken, next_) ELSE taken
    /\ lwpc' = "members"
    /\ UNCHANGED <<next_, recent_, prev_next, current_, retrieved_, lrpc,
                   unmanaged, handed>>
    /\ UNCHANGED <<objVars, syncVars, ballVars, trigVars, pairVars, pairHistVars, debugVars, copyVars, refVars, misuseVars, immVars, expVars>>

\* ~Reader(), run for the member reader_interface_ after ~Object()'s body:
\* if (current_) object_->dispose(current_)
LegacyDestroyReader ==
    /\ lwpc = "members"
    /\ gdFlag' = IF current_ # Null THEN DisposeEntry(gdFlag, current_) ELSE gdFlag
    /\ lwpc' = "destroyed"
    /\ UNCHANGED <<next_, recent_, prev_next, current_, retrieved_, lrpc,
                   unmanaged, gdState, handed, taken>>
    /\ UNCHANGED <<objVars, syncVars, ballVars, trigVars, pairVars, pairHistVars, debugVars, copyVars, refVars, misuseVars, immVars, expVars>>

\* The Object is alive: the reader thread may call into it.
LegacyAlive == lwpc \notin {"members", "destroyed"}

\* Reader::pending(), as called by get_next_if_pending() and update(): true
\* leads on to get_next(), false returns
LegacyPending ==
    /\ LegacyAlive
    /\ lrpc = "idle"
    /\ lrpc' = IF next_ # Null THEN "pending" ELSE "idle"
    /\ UNCHANGED <<next_, recent_, prev_next, lwpc, current_, retrieved_,
                   unmanaged, gdState, gdFlag, handed, taken>>
    /\ UNCHANGED <<objVars, syncVars, ballVars, trigVars, pairVars, pairHistVars, debugVars, copyVars, refVars, misuseVars, immVars, expVars>>

\* Reader::get_next(), called directly or after pending():
\* if (current_) object_->dispose(current_)
LegacyGetNextDispose ==
    /\ LegacyAlive
    /\ lrpc \in {"idle", "pending"}
    /\ gdFlag' = IF current_ # Null THEN DisposeEntry(gdFlag, current_) ELSE gdFlag
    /\ lrpc' = "exchange"
    /\ UNCHANGED <<next_, recent_, prev_next, lwpc, current_, retrieved_,
                   unmanaged, gdState, handed, taken>>
    /\ UNCHANGED <<objVars, syncVars, ballVars, trigVars, pairVars, pairHistVars, debugVars, copyVars, refVars, misuseVars, immVars, expVars>>

\* Mutant of LegacyGetNextExchange: get_next() reads next_ and leaves it in
\* place.
LegacyGetNextLoad ==
    /\ lrpc = "exchange"
    /\ current_' = next_
    /\ retrieved_' = next_
    /\ handed' = IF next_ # Null THEN Count(handed, next_) ELSE handed
    /\ lrpc' = "idle"
    /\ UNCHANGED <<next_, recent_, prev_next, lwpc, unmanaged, gdState, gdFlag,
                   taken>>
    /\ UNCHANGED <<objVars, syncVars, ballVars, trigVars, pairVars, pairHistVars, debugVars, copyVars, refVars, misuseVars, immVars, expVars>>

\* current_ = object_->get_next(), that is next_.exchange(nullptr);
\* retrieved_ = current_; return current_
LegacyGetNextExchange ==
    /\ lrpc = "exchange"
    /\ current_' = next_
    /\ retrieved_' = next_
    /\ next_' = Null
    /\ handed' = IF next_ # Null THEN Count(handed, next_) ELSE handed
    /\ lrpc' = "idle"
    /\ UNCHANGED <<recent_, prev_next, lwpc, unmanaged, gdState, gdFlag, taken>>
    /\ UNCHANGED <<objVars, syncVars, ballVars, trigVars, pairVars, pairHistVars, debugVars, copyVars, refVars, misuseVars, immVars, expVars>>

\* Reader::get_next_unmanaged(): return (retrieved_ = object_->get_next())
LegacyGetNextUnmanaged ==
    /\ LegacyAlive
    /\ lrpc \in {"idle", "pending"}
    /\ retrieved_' = next_
    /\ next_' = Null
    /\ unmanaged' = IF next_ # Null THEN unmanaged \cup {next_} ELSE unmanaged
    /\ handed' = IF next_ # Null THEN Count(handed, next_) ELSE handed
    /\ lrpc' = "idle"
    /\ UNCHANGED <<recent_, prev_next, lwpc, current_, gdState, gdFlag, taken>>
    /\ UNCHANGED <<objVars, syncVars, ballVars, trigVars, pairVars, pairHistVars, debugVars, copyVars, refVars, misuseVars, immVars, expVars>>

\* Object::dispose(ptr) on a version got from get_next_unmanaged()
LegacyDisposeUnmanaged(v) ==
    /\ LegacyAlive
    /\ lrpc = "idle"
    /\ v \in unmanaged
    /\ unmanaged' = unmanaged \ {v}
    /\ gdFlag' = DisposeEntry(gdFlag, v)
    /\ UNCHANGED <<next_, recent_, prev_next, lwpc, current_, retrieved_, lrpc,
                   gdState, handed, taken>>
    /\ UNCHANGED <<objVars, syncVars, ballVars, trigVars, pairVars, pairHistVars, debugVars, copyVars, refVars, misuseVars, immVars, expVars>>

NextLegacy ==
    \/ LegacyCommitBegin
    \/ LegacyCommitExchange
    \/ LegacyCommitDispose
    \/ LegacyCommitCollect
    \/ LegacyDestroy
    \/ LegacyDestroyReader
    \/ LegacyPending
    \/ LegacyGetNextDispose
    \/ LegacyGetNextExchange
    \/ LegacyGetNextUnmanaged
    \/ \E v \in Versions : LegacyDisposeUnmanaged(v)

\* Version v has been put into next_ by its commit().
Published(v) == v < recent_ \/ (v = recent_ /\ lwpc # "exchange")

\* A step disposes of a version on the writer side only inside a later
\* commit() or in ~Object(), and hands one out only from next_.
LegacyStep ==
    \A v \in Versions :
        /\ taken'[v] # taken[v] =>
              \/ lwpc = "dispose" /\ recent_ > v
              \/ lwpc' = "members"
        /\ handed'[v] # handed[v] => (next_ = v /\ next_' = Null)

\* C30: for every interleaving of the writer's commit() and the reader's
\* get_next(), every committed version is either handed to the reader by
\* exactly one get_next() or passed to manager_.dispose() by a later commit()
\* (or by ~Object), never both and never handed out twice.
HandedOrDisposedOnce ==
    /\ [][LegacyStep]_vars
    /\ [](\A v \in Versions :
             /\ handed[v] + taken[v] <= 1
             /\ ~Published(v) => handed[v] + taken[v] = 0
             /\ (Published(v) /\ next_ = v /\ LegacyAlive) =>
                    handed[v] + taken[v] = 0
             /\ (Published(v) /\ (next_ # v \/ ~LegacyAlive) /\ prev_next # v) =>
                    handed[v] + taken[v] = 1)

\* C30 witness: three commits; the reader got version 1 from get_next() and
\* version 3 from get_next_unmanaged(), and the third commit() disposed of
\* version 2, which no get_next() ever returned.
HandedOrDisposedOnceWitness ==
    /\ recent_ = 3
    /\ lwpc = "idle"
    /\ handed[1] = 1 /\ handed[2] = 0 /\ handed[3] = 1
    /\ taken[1] = 0 /\ taken[2] = 1 /\ taken[3] = 0
    /\ current_ = 1
    /\ unmanaged = {3}

(***************************************************************************)
(* Immutable<T>: a thread that owns Immutable objects obtains them from    *)
(* get(), copy-constructs, move-constructs, copy-assigns (an Immutable to  *)
(* itself included) and destroys them, while the writer commits.           *)
(***************************************************************************)
NoHandle == "none"

InitImmutable ==
    /\ hlive = [h \in Handles |-> FALSE]
    /\ hrec = [h \in Handles |-> Null]
    /\ hpc = "idle"
    /\ hcur = NoHandle
    /\ harg = Null

\* What an Immutable operation leaves alone in the Object and the Book.
immFrame == <<recState, recData, last_written_record, last_written_ref, wpc,
              wrec, wold, wval, nStarted, lastValue, collectVars, readerVars>>

\* Object::get(): the load of last_written_record_, the argument of
\* Immutable(Record<T>*)
ImmGetLoad(h) ==
    /\ hpc = "idle"
    /\ ~hlive[h]
    /\ ObjectAlive
    /\ hcur' = h
    /\ harg' = last_written_record
    /\ hpc' = "construct"
    /\ UNCHANGED <<ref_count, dispose_flags, hlive, hrec>>
    /\ UNCHANGED immFrame
    /\ UNCHANGED <<syncVars, ballVars, trigVars, pairVars, pairHistVars, debugVars, copyVars, refVars, misuseVars, legacyVars, expVars>>

\* Immutable(Record<T>* record): record_(record); if (record_) record_->ref()
ImmConstruct ==
    /\ hpc = "construct"
    /\ hlive' = [hlive EXCEPT ![hcur] = TRUE]
    /\ hrec' = [hrec EXCEPT ![hcur] = harg]
    /\ ref_count' = IF harg # Null THEN Ref(ref_count, harg) ELSE ref_count
    /\ hcur' = NoHandle
    /\ harg' = Null
    /\ hpc' = "idle"
    /\ UNCHANGED dispose_flags
    /\ UNCHANGED immFrame
    /\ UNCHANGED <<syncVars, ballVars, trigVars, pairVars, pairHistVars, debugVars, copyVars, refVars, misuseVars, legacyVars, expVars>>

\* Mutant of ImmCopyConstruct: the copy takes no reference.
ImmCopyConstructNoRef(h, g) ==
    /\ hpc = "idle"
    /\ ~hlive[h]
    /\ hlive[g]
    /\ hlive' = [hlive EXCEPT ![h] = TRUE]
    /\ hrec' = [hrec EXCEPT ![h] = hrec[g]]
    /\ UNCHANGED <<ref_count, dispose_flags, hpc, hcur, harg>>
    /\ UNCHANGED immFrame
    /\ UNCHANGED <<syncVars, ballVars, trigVars, pairVars, pairHistVars, debugVars, copyVars, refVars, misuseVars, legacyVars, expVars>>

\* Immutable(const Immutable& rhs): record_ is nullptr from its member
\* initialiser, so the unref is skipped; record_ = rhs.record_;
\* if (record_) record_->ref()
ImmCopyConstruct(h, g) ==
    /\ hpc = "idle"
    /\ ~hlive[h]
    /\ hlive[g]
    /\ hlive' = [hlive EXCEPT ![h] = TRUE]
    /\ hrec' = [hrec EXCEPT ![h] = hrec[g]]
    /\ ref_count' = IF hrec[g] # Null THEN Ref(ref_count, hrec[g]) ELSE ref_count
    /\ UNCHANGED <<dispose_flags, hpc, hcur, harg>>
    /\ UNCHANGED immFrame
    /\ UNCHANGED <<syncVars, ballVars, trigVars, pairVars, pairHistVars, debugVars, copyVars, refVars, misuseVars, legacyVars, expVars>>

\* Immutable(Immutable&& rhs): record_ = rhs.record_; rhs.record_ = nullptr
ImmMoveConstruct(h, g) ==
    /\ hpc = "idle"
    /\ ~hlive[h]
    /\ hlive[g]
    /\ hlive' = [hlive EXCEPT ![h] = TRUE]
    /\ hrec' = [hrec EXCEPT ![h] = hrec[g], ![g] = Null]
    /\ UNCHANGED <<ref_count, dispose_flags, hpc, hcur, harg>>
    /\ UNCHANGED immFrame
    /\ UNCHANGED <<syncVars, ballVars, trigVars, pairVars, pairHistVars, debugVars, copyVars, refVars, misuseVars, legacyVars, expVars>>

\* operator=(const Immutable& rhs), rhs being any Immutable of the thread,
\* *this included: if (record_) record_->unref()  -- the fetch_sub
ImmAssignUnref(h, g) ==
    /\ hpc = "idle"
    /\ hlive[h]
    /\ hlive[g]
    /\ hcur' = h
    /\ harg' = g
    /\ IF hrec[h] = Null
         THEN /\ hpc' = "assignref"
              /\ UNCHANGED ref_count
         ELSE /\ ref_count' = FetchSub(ref_count, hrec[h])
              /\ hpc' = IF ref_count[hrec[h]] = 1 THEN "assigndispose"
                        ELSE "assignref"
    /\ UNCHANGED <<dispose_flags, hlive, hrec>>
    /\ UNCHANGED immFrame
    /\ UNCHANGED <<syncVars, ballVars, trigVars, pairVars, pairHistVars, debugVars, copyVars, refVars, misuseVars, legacyVars, expVars>>

\* Record::unref inside operator=: book_->dispose(this).  The lookup is not
\* synchronised with a commit() in progress and may miss the entry then.
ImmAssignDispose ==
    /\ hpc = "assigndispose"
    /\ \/ dispose_flags' = Dispose(dispose_flags, hrec[hcur])
       \/ /\ wpc # "idle"
          /\ UNCHANGED dispose_flags
    /\ hpc' = "assignref"
    /\ UNCHANGED <<ref_count, hlive, hrec, hcur, harg>>
    /\ UNCHANGED immFrame
    /\ UNCHANGED <<syncVars, ballVars, trigVars, pairVars, pairHistVars, debugVars, copyVars, refVars, misuseVars, legacyVars, expVars>>

\* operator=: record_ = rhs.record_; if (record_) record_->ref(); return
ImmAssignRef ==
    /\ hpc = "assignref"
    /\ hrec' = [hrec EXCEPT ![hcur] = hrec[harg]]
    /\ ref_count' = IF hrec[harg] # Null THEN Ref(ref_count, hrec[harg])
                    ELSE ref_count
    /\ hcur' = NoHandle
    /\ harg' = Null
    /\ hpc' = "idle"
    /\ UNCHANGED <<dispose_flags, hlive>>
    /\ UNCHANGED immFrame
    /\ UNCHANGED <<syncVars, ballVars, trigVars, pairVars, pairHistVars, debugVars, copyVars, refVars, misuseVars, legacyVars, expVars>>

\* ~Immutable(): if (record_) record_->unref()  -- the fetch_sub
ImmDestroyUnref(h) ==
    /\ hpc = "idle"
    /\ hlive[h]
    /\ hlive' = [hlive EXCEPT ![h] = FALSE]
    /\ hrec' = [hrec EXCEPT ![h] = Null]
    /\ IF hrec[h] = Null
         THEN UNCHANGED <<ref_count, hpc, hcur, harg>>
         ELSE /\ ref_count' = FetchSub(ref_count, hrec[h])
              /\ IF ref_count[hrec[h]] = 1
                   THEN /\ hpc' = "destroydispose"
                        /\ harg' = hrec[h]
                        /\ UNCHANGED hcur
                   ELSE UNCHANGED <<hpc, hcur, harg>>
    /\ UNCHANGED dispose_flags
    /\ UNCHANGED immFrame
    /\ UNCHANGED <<syncVars, ballVars, trigVars, pairVars, pairHistVars, debugVars, copyVars, refVars, misuseVars, legacyVars, expVars>>

\* Record::unref inside ~Immutable: book_->dispose(this)
ImmDestroyDispose ==
    /\ hpc = "destroydispose"
    /\ \/ dispose_flags' = Dispose(dispose_flags, harg)
       \/ /\ wpc # "idle"
          /\ UNCHANGED dispose_flags
    /\ harg' = Null
    /\ hpc' = "idle"
    /\ UNCHANGED <<ref_count, hlive, hrec, hcur>>
    /\ UNCHANGED immFrame
    /\ UNCHANGED <<syncVars, ballVars, trigVars, pairVars, pairHistVars, debugVars, copyVars, refVars, misuseVars, legacyVars, expVars>>

NextImmutable ==
    \/ \E v \in Values : MakeRecord(v)
    \/ MakeOut
    \/ StoreRecord
    \/ AssignUnref
    \/ AssignDispose
    \/ AssignRef
    \/ \E rec \in RecIds : CollectCheck(rec)
    \/ CollectDelete
    \/ CollectDone
    \/ CommitReturn
    \/ \E h \in Handles : ImmGetLoad(h)
    \/ ImmConstruct
    \/ \E h, g \in Handles : ImmCopyConstruct(h, g)
    \/ \E h, g \in Handles : ImmMoveConstruct(h, g)
    \/ \E h, g \in Handles : ImmAssignUnref(h, g)
    \/ ImmAssignDispose
    \/ ImmAssignRef
    \/ \E h \in Handles : ImmDestroyUnref(h)
    \/ ImmDestroyDispose

\* The live Immutable objects referencing record rec, last_written_ref_
\* counted.
HandleCount(rec) ==
    Cardinality({h \in Handles : hlive[h] /\ hrec[h] = rec})
        + (IF last_written_ref = rec THEN 1 ELSE 0)

\* No Immutable operation is mid-flight: the writer is outside commit() and
\* the thread is between two operations.
ImmQuiet == wpc = "idle" /\ hpc = "idle"

\* C31: in every state where no Immutable operation is mid-flight, each
\* registered record's ref_count equals the number of live Immutable
\* objects referencing it, last_written_ref_ counted; construction from a
\* record, copy construction, copy assignment, self-assignment included,
\* move construction and destruction all preserve this.
RefCountIsHandleCount ==
    ImmQuiet =>
        \A rec \in DOMAIN dispose_flags : ref_count[rec] = HandleCount(rec)

\* C31 witness: after three commits, record 2 is superseded and still
\* registered; an unref took its count to 0 and flagged it (as the unref of
\* a self-assignment does) and one Immutable of the thread references it
\* again, the other one being on record 3 with last_written_ref_.
RefCountIsHandleCountWitness ==
    /\ ImmQuiet
    /\ nStarted = 3
    /\ 2 \in DOMAIN dispose_flags
    /\ dispose_flags[2]
    /\ hlive["a"] /\ hrec["a"] = 2
    /\ hlive["b"] /\ hrec["b"] = 3
    /\ ref_count[2] = 1
    /\ ref_count[3] = 2
    /\ last_written_ref = 3

(***************************************************************************)
(* stupid::experimental::Object.  Its Record, Book and Object have the     *)
(* members of stupid::Object; its Immutable::operator= is                  *)
(* record_ = rhs.record_; if (record_) record_->ref(); return *this.       *)
(* One writer thread commits, one reader thread calls read().get(), and    *)
(* both keep or drop the Immutables they are returned.                     *)
(***************************************************************************)
InitExperimental ==
    /\ ekept = [rec \in RecIds |-> 0]
    /\ eretrieved = Null
    /\ etemp = Null
    /\ erpc = "idle"
    /\ egets = 0

\* The variables of the Object no step of the experimental Object uses.
expFrame == <<wold, wcur, wdtor, wval, dtorAssert, dtorHeld, readerVars,
              lastValue, due>>

\* experimental::Record::unref: if (--ref_count_ == 0) book_->dispose(this)
ExpUnrefFlags(flags, rc, rec) == IF rc[rec] = 1 THEN Dispose(flags, rec) ELSE flags

\* commit(data): const auto record = book_.make_record(data)
ExpMakeRecord(v) ==
    /\ wpc = "idle"
    /\ nStarted < MaxCommits
    /\ LET rec == nStarted + 1 IN
        /\ recState' = [recState EXCEPT ![rec] = "live"]
        /\ recData' = [recData EXCEPT ![rec] = v]
        /\ dispose_flags' = Insert(dispose_flags, rec)
        /\ wrec' = rec
    /\ nStarted' = nStarted + 1
    /\ wpc' = "made"
    /\ UNCHANGED <<ref_count, last_written_record, last_written_ref, wtodo>>
    /\ UNCHANGED expFrame
    /\ UNCHANGED expVars
    /\ UNCHANGED <<syncVars, ballVars, trigVars, pairVars, pairHistVars, debugVars, copyVars, refVars, misuseVars, legacyVars, immVars>>

\* const auto out = Immutable<T>{ record }
ExpMakeOut ==
    /\ wpc = "made"
    /\ ref_count' = Ref(ref_count, wrec)
    /\ wpc' = "outed"
    /\ UNCHANGED <<recState, recData, dispose_flags, last_written_record,
                   last_written_ref, wrec, wtodo, nStarted>>
    /\ UNCHANGED expFrame
    /\ UNCHANGED expVars
    /\ UNCHANGED <<syncVars, ballVars, trigVars, pairVars, pairHistVars, debugVars, copyVars, refVars, misuseVars, legacyVars, immVars>>

\* last_written_record_.store(record)
ExpStoreRecord ==
    /\ wpc = "outed"
    /\ last_written_record' = wrec
    /\ wpc' = "stored"
    /\ UNCHANGED <<recState, recData, ref_count, dispose_flags,
                   last_written_ref, wrec, wtodo, nStarted>>
    /\ UNCHANGED expFrame
    /\ UNCHANGED expVars
    /\ UNCHANGED <<syncVars, ballVars, trigVars, pairVars, pairHistVars, debugVars, copyVars, refVars, misuseVars, legacyVars, immVars>>

\* last_written_ref_ = out: record_ = rhs.record_; record_->ref().  The
\* record last_written_ref_ had is not unref'd.  Then book_.collect() starts.
ExpAssign ==
    /\ wpc = "stored"
    /\ last_written_ref' = wrec
    /\ ref_count' = Ref(ref_count, wrec)
    /\ wtodo' = DOMAIN dispose_flags
    /\ wpc' = "collect"
    /\ UNCHANGED <<recState, recData, dispose_flags, last_written_record,
                   wrec, nStarted>>
    /\ UNCHANGED expFrame
    /\ UNCHANGED expVars
    /\ UNCHANGED <<syncVars, ballVars, trigVars, pairVars, pairHistVars, debugVars, copyVars, refVars, misuseVars, legacyVars, immVars>>

\* Book::collect, one entry: if (disposed && record->is_dangling()) delete
\* the data and the record and erase the entry; else pos++
ExpCollectEntry(rec) ==
    /\ wpc = "collect"
    /\ rec \in wtodo
    /\ wtodo' = wtodo \ {rec}
    /\ IF Collectible(rec)
         THEN /\ recState' = [recState EXCEPT ![rec] = "deleted"]
              /\ recData' = [recData EXCEPT ![rec] = Freed]
              /\ dispose_flags' = Erase(dispose_flags, rec)
         ELSE UNCHANGED <<recState, recData, dispose_flags>>
    /\ UNCHANGED <<ref_count, last_written_record, last_written_ref, wpc,
                   wrec, nStarted>>
    /\ UNCHANGED expFrame
    /\ UNCHANGED expVars
    /\ UNCHANGED <<syncVars, ballVars, trigVars, pairVars, pairHistVars, debugVars, copyVars, refVars, misuseVars, legacyVars, immVars>>

\* return out: the caller keeps the Immutable it is returned, or drops it
\* (~Immutable -> unref)
ExpCommitReturn(keep) ==
    /\ wpc = "collect"
    /\ wtodo = {}
    /\ IF keep
         THEN /\ ekept[wrec] < MaxKept
              /\ ekept' = [ekept EXCEPT ![wrec] = @ + 1]
              /\ UNCHANGED <<ref_count, dispose_flags>>
         ELSE /\ ref_count' = FetchSub(ref_count, wrec)
              /\ dispose_flags' = ExpUnrefFlags(dispose_flags, ref_count, wrec)
              /\ UNCHANGED ekept
    /\ wrec' = Null
    /\ wpc' = "idle"
    /\ UNCHANGED <<recState, recData, last_written_record, last_written_ref,
                   wtodo, nStarted>>
    /\ UNCHANGED expFrame
    /\ UNCHANGED <<eretrieved, etemp, erpc, egets>>
    /\ UNCHANGED <<syncVars, ballVars, trigVars, pairVars, pairHistVars, debugVars, copyVars, refVars, misuseVars, legacyVars, immVars>>

\* Read::get() -> Object::get(): last_written_record_.load()
ExpGetLoad ==
    /\ erpc = "idle"
    /\ egets < MaxGets
    /\ egets' = egets + 1
    /\ etemp' = last_written_record
    /\ erpc' = "loaded"
    /\ UNCHANGED <<recState, recData, ref_count, dispose_flags,
                   last_written_record, last_written_ref, wpc, wrec, wtodo,
                   nStarted>>
    /\ UNCHANGED expFrame
    /\ UNCHANGED <<ekept, eretrieved>>
    /\ UNCHANGED <<syncVars, ballVars, trigVars, pairVars, pairHistVars, debugVars, copyVars, refVars, misuseVars, legacyVars, immVars>>

\* Object::get(): Immutable<T>{ record }: if (record_) record_->ref()
ExpGetRef ==
    /\ erpc = "loaded"
    /\ ref_count' = IF etemp # Null THEN Ref(ref_count, etemp) ELSE ref_count
    /\ erpc' = "assign"
    /\ UNCHANGED <<recState, recData, dispose_flags, last_written_record,
                   last_written_ref, wpc, wrec, wtodo, nStarted>>
    /\ UNCHANGED expFrame
    /\ UNCHANGED <<ekept, eretrieved, etemp, egets>>
    /\ UNCHANGED <<syncVars, ballVars, trigVars, pairVars, pairHistVars, debugVars, copyVars, refVars, misuseVars, legacyVars, immVars>>

\* retrieved_ = object_->get(): record_ = rhs.record_; if (record_)
\* record_->ref(); the record retrieved_ had is not unref'd
ExpGetAssign ==
    /\ erpc = "assign"
    /\ eretrieved' = etemp
    /\ ref_count' = IF etemp # Null THEN Ref(ref_count, etemp) ELSE ref_count
    /\ erpc' = "return"
    /\ UNCHANGED <<recState, recData, dispose_flags, last_written_record,
                   last_written_ref, wpc, wrec, wtodo, nStarted>>
    /\ UNCHANGED expFrame
    /\ UNCHANGED <<ekept, etemp, egets>>
    /\ UNCHANGED <<syncVars, ballVars, trigVars, pairVars, pairHistVars, debugVars, copyVars, refVars, misuseVars, legacyVars, immVars>>

\* return (retrieved_ = ...): the result is copy-constructed from retrieved_
\* (ref) and the temporary is destroyed (unref); the caller keeps the result
\* or drops it (a second unref).  retrieved_ holds its reference throughout.
ExpGetReturn(keep) ==
    /\ erpc = "return"
    /\ IF etemp = Null
         THEN UNCHANGED <<ref_count, ekept>>
         ELSE IF keep
                THEN /\ ekept[etemp] < MaxKept
                     /\ ekept' = [ekept EXCEPT ![etemp] = @ + 1]
                     /\ UNCHANGED ref_count
                ELSE /\ ref_count' = FetchSub(ref_count, etemp)
                     /\ UNCHANGED ekept
    /\ etemp' = Null
    /\ erpc' = "idle"
    /\ UNCHANGED <<recState, recData, dispose_flags, last_written_record,
                   last_written_ref, wpc, wrec, wtodo, nStarted>>
    /\ UNCHANGED expFrame
    /\ UNCHANGED <<eretrieved, egets>>
    /\ UNCHANGED <<syncVars, ballVars, trigVars, pairVars, pairHistVars, debugVars, copyVars, refVars, misuseVars, legacyVars, immVars>>

\* ~Immutable() of an Immutable a caller kept: if (record_) record_->unref()
ExpDrop(rec) ==
    /\ ekept[rec] > 0
    /\ ekept' = [ekept EXCEPT ![rec] = @ - 1]
    /\ ref_count' = FetchSub(ref_count, rec)
    /\ dispose_flags' = ExpUnrefFlags(dispose_flags, ref_count, rec)
    /\ UNCHANGED <<recState, recData, last_written_record, last_written_ref,
                   wpc, wrec, wtodo, nStarted>>
    /\ UNCHANGED expFrame
    /\ UNCHANGED <<eretrieved, etemp, erpc, egets>>
    /\ UNCHANGED <<syncVars, ballVars, trigVars, pairVars, pairHistVars, debugVars, copyVars, refVars, misuseVars, legacyVars, immVars>>

NextExperimental ==
    \/ \E v \in Values : ExpMakeRecord(v)
    \/ ExpMakeOut
    \/ ExpStoreRecord
    \/ ExpAssign
    \/ \E rec \in RecIds : ExpCollectEntry(rec)
    \/ \E keep \in BOOLEAN : ExpCommitReturn(keep)
    \/ ExpGetLoad
    \/ ExpGetRef
    \/ ExpGetAssign
    \/ \E keep \in BOOLEAN : ExpGetReturn(keep)
    \/ \E rec \in RecIds : ExpDrop(rec)

\* The records an Immutable outside the Object references: one a caller
\* kept, Read::retrieved_, or the one Read::get() is working on.
ExternallyReferenced ==
    {rec \in RecIds : ekept[rec] > 0 \/ eretrieved = rec \/ etemp = rec}

\* C32: in stupid::experimental::Object superseded records are reclaimed: a
\* record superseded by a commit() and referenced by no external Immutable
\* is deleted by a Book::collect() no later than the next commit, so after
\* any sequence of commits the registry holds at most 1 entry plus the
\* records still referenced externally.
RegistryBounded ==
    wpc = "idle" =>
        /\ Cardinality(DOMAIN dispose_flags)
              <= 1 + Cardinality(ExternallyReferenced)
        /\ \A rec \in RecIds :
              (rec + 2 <= nStarted /\ rec \notin ExternallyReferenced) =>
                  recState[rec] = "deleted"

(***************************************************************************)
(* One specification per component.  Each starts with its component        *)
(* constructed with any arguments and the other components constructed     *)
(* (value 1, first catcher 0) and left alone.                              *)
(***************************************************************************)
Parked ==
    /\ InitObject
    /\ InitSyncOf(1)
    /\ InitBallOf(0)
    /\ InitTrigger
    /\ InitPairOf([c \in Cells |-> FALSE])
    /\ InitDebug
    /\ InitCopy
    /\ InitRef
    /\ InitMisuse
    /\ InitLegacy
    /\ InitImmutable
    /\ InitExperimental

Init == Parked

InitForSync ==
    /\ InitObject /\ InitSync /\ InitBallOf(0) /\ InitTrigger
    /\ InitPairOf([c \in Cells |-> FALSE])
    /\ InitDebug
    /\ InitCopy
    /\ InitRef
    /\ InitMisuse
    /\ InitLegacy
    /\ InitImmutable
    /\ InitExperimental

InitForPair ==
    /\ InitObject /\ InitSyncOf(1) /\ InitBallOf(0) /\ InitTrigger
    /\ InitPair
    /\ InitDebug
    /\ InitCopy
    /\ InitRef
    /\ InitMisuse
    /\ InitLegacy
    /\ InitImmutable
    /\ InitExperimental

InitForBall ==
    /\ InitObject /\ InitSyncOf(1) /\ InitBall /\ InitTrigger
    /\ InitPairOf([c \in Cells |-> FALSE])
    /\ InitDebug
    /\ InitCopy
    /\ InitRef
    /\ InitMisuse
    /\ InitLegacy
    /\ InitImmutable
    /\ InitExperimental

Spec == Init /\ [][NextObject]_vars

SpecCopy == Init /\ [][NextCopy]_vars

SpecDebug == Init /\ [][NextDebug]_vars

SpecRef == Init /\ [][NextRef]_vars

SpecSync == InitForSync /\ [][NextSync]_vars

SpecPair == InitForPair /\ [][NextPair]_vars

SpecBall == InitForBall /\ [][NextBall]_vars

SpecBallMisuse == InitForBall /\ [][NextBallMisuse]_vars

SpecBallFair == InitForBall /\ [][NextBall]_vars /\ BallFairness

SpecTrigger == Init /\ [][NextTrigger]_vars

SpecLegacy == Init /\ [][NextLegacy]_vars

SpecImmutable == Init /\ [][NextImmutable]_vars

SpecExperimental == Init /\ [][NextExperimental]_vars
====
